---- MODULE Spec2Model ----
(***************************************************************************)
(* A model of docker/model-cli: the Runner Client (desktop.Client), the    *)
(* pull progress engine, the progress tracker, the chat stream engine and  *)
(* the `run` command with its interactive loop, and the command history.   *)
(*                                                                         *)
(* Strings the code inspects character by character (model references,     *)
(* model ids) are sequences of one-character strings.  Errors are chains:  *)
(* a sequence of messages whose suffixes are the errors the chain wraps,   *)
(* so that errors.Is is a search along the chain.                          *)
(***************************************************************************)
EXTENDS Integers, Sequences, FiniteSets, TLC

VARIABLES call, run, pull, tracker, chat, hist, session, eval, install, compose

vars == <<call, run, pull, tracker, chat, hist, session, eval, install, compose>>

----------------------------------------------------------------------------
(* Bounds of the model.                                                    *)

\* the longest model list the runner answers a listing with
MaxModels == 2
\* the most references handed to one Remove call
MaxRemove == 2

----------------------------------------------------------------------------
(* Strings.                                                                *)

\* strings.ToLower on one character of the alphabet the references use
ToLowerChar(c) ==
    CASE c = "A" -> "a"
      [] c = "B" -> "b"
      [] c = "C" -> "c"
      [] c = "F" -> "f"
      [] c = "H" -> "h"
      [] c = "O" -> "o"
      [] OTHER -> c

ToLower(s) == [i \in 1..Len(s) |-> ToLowerChar(s[i])]

IsUpper(c) == c \in {"A", "B", "C", "F", "H", "O"}

HasUpper(s) == \E i \in 1..Len(s) : IsUpper(s[i])

HasPrefix(s, p) == Len(s) >= Len(p) /\ SubSeq(s, 1, Len(p)) = p

\* strings.TrimPrefix
TrimPrefix(s, p) == IF HasPrefix(s, p) THEN SubSeq(s, Len(p) + 1, Len(s)) ELSE s

\* strings.Contains(s, "/")
ContainsSlash(s) == \E i \in 1..Len(s) : s[i] = "/"

\* strings.Trim(s, "/"): the leading and trailing slashes removed
TrimSlashes(s) ==
    LET keep == {i \in 1..Len(s) : s[i] # "/"}
    IN  IF keep = {} THEN <<>>
        ELSE LET lo == CHOOSE i \in keep : \A j \in keep : i <= j
                 hi == CHOOSE i \in keep : \A j \in keep : i >= j
             IN  SubSeq(s, lo, hi)

HFPrefix == <<"h", "f", ".", "c", "o", "/">>

Sha256Prefix == <<"s", "h", "a", "2", "5", "6", ":">>

\* the mutant of normalizeHuggingFaceModelName that forgets to lower-case
normalizeNoLower(model) == model

\* desktop.normalizeHuggingFaceModelName
normalizeHuggingFaceModelName(model) ==
    IF HasPrefix(model, HFPrefix) THEN ToLower(model) ELSE model

----------------------------------------------------------------------------
(* Errors.                                                                 *)

Nil == <<>>

ErrNotFound == <<"model not found">>

ErrServiceUnavailable == <<"service unavailable">>

\* what the transport returns when no response arrives
ErrTransport == <<"connection refused">>

\* fmt.Errorf("...: %w", err) and errors.Wrap(err, ...)
Wrap(msg, err) == <<msg>> \o err

\* fmt.Errorf without %w
Errorf(msg) == <<msg>>

\* errors.Is(err, target): target is err or one of the errors err wraps
ErrorsIs(err, target) ==
    \E i \in 1..Len(err) : SubSeq(err, i, Len(err)) = target

----------------------------------------------------------------------------
(* The runner's HTTP answers.                                              *)

StatusOK == 200
StatusCreated == 201
StatusAccepted == 202
StatusNotFound == 404
StatusConflict == 409
StatusServiceUnavailable == 503
\* the code of an answer that never arrived: Do returned an error
NoResponse == 0

Codes == {StatusOK, StatusCreated, StatusAccepted, StatusNotFound,
          StatusConflict, StatusServiceUnavailable}

\* a request as the runner sees it: its route, the model reference its URL or
\* body carries (<<>> when it carries none) and the status it is answered with
Req(route, ref, code) ==
    [route |-> route, ref |-> ref, code |-> code, json |-> TRUE, models |-> <<>>]

\* the request of a listing, with what the answer's body held
ListReq(ans) ==
    [route |-> "GET /models", ref |-> <<>>, code |-> ans.code, json |-> ans.json,
     models |-> ans.models]

\* Client.doRequestWithAuth: the response, or the error that replaces it
doRequestWithAuth(code) ==
    IF code = NoResponse THEN [resp |-> NoResponse, err |-> ErrTransport]
    ELSE IF code = StatusServiceUnavailable
         THEN [resp |-> NoResponse, err |-> ErrServiceUnavailable]
         ELSE [resp |-> code, err |-> Nil]

\* Client.doRequest
doRequest(code) == doRequestWithAuth(code)

\* Client.handleQueryError
handleQueryError(err) ==
    IF ErrorsIs(err, ErrServiceUnavailable) THEN ErrServiceUnavailable
    ELSE Wrap("error querying", err)

----------------------------------------------------------------------------
(* The pull progress bar (ProgressBarState) and the pull stream.           *)

\* the zero time.Time; the clock of a pull starts after it
ZeroTime == 0
\* ProgressBarState.UpdateInterval as Pull sets it, in milliseconds
UpdateInterval == 100
\* the most lines one pull stream is read for
MaxLines == 3

\* milliseconds that may pass between two readings of the clock
Delays == {0, 60, 100}

LayerIDs == {"layerA", "layerB"}

\* a decoded line of the pull stream; kind "garbage" is a non-empty line that
\* json.Unmarshal rejects, kind "empty" the empty line
Line(kind, id, cur, total, msg) ==
    [kind |-> kind, id |-> id, current |-> cur, total |-> total, message |-> msg]

ProgressLines == {Line("progress", id, cur, 1000, "") : id \in LayerIDs, cur \in {500, 1000}}

EmptyLine == Line("empty", "", 0, 0, "")
GarbageLine == Line("garbage", "", 0, 0, "")
ErrorLine == Line("error", "", 0, 0, "pull failed")
SuccessLine == Line("success", "", 0, 0, "Model pulled")
UnknownLine == Line("warning", "", 0, 0, "")

\* fmt's %3.0f of float64(current) / float64(total) * 100: to the nearest
\* integer, a tie to the even one; -1 stands for NaN and +Inf (total = 0)
Percent(current, total) ==
    IF total = 0 THEN -1
    ELSE LET q == (100 * current) \div total
             r == (100 * current) % total
         IN  IF 2 * r > total THEN q + 1
             ELSE IF 2 * r = total THEN q + (q % 2)
             ELSE q

\* the modulus of the unsigned words of the progress bar: uint64 is 2^64 in
\* the code and is scaled here to 16 bits, which every size of the model fits
\* with room to spare and which keeps the products below within range
UintModulus == 2 ^ 16

\* total - current on unsigned words: below zero it wraps around
SubUint(total, current) == (total - current) % UintModulus

\* ProgressBarState.calcETA, in seconds; elapsed is the milliseconds since
\* StartTime, and calcSpeed's speed, current bytes in elapsed time, is
\* positive only when both are.  The quotient is truncated as int64() does.
calcETA(current, total, elapsed) ==
    IF elapsed <= 0 \/ current = 0 THEN 0
    ELSE (SubUint(total, current) * elapsed) \div (current * 1000)

NewProgressBarState ==
    [StartTime |-> ZeroTime, LastTime |-> ZeroTime, LastPrint |-> ZeroTime]

\* the mutant of fmtProgressBar that renders every message
fmtProgressBarUnthrottled(pbs, current, total, t1, now) ==
    LET p0 == IF pbs.StartTime = ZeroTime
              THEN [StartTime |-> t1, LastTime |-> t1, LastPrint |-> t1]
              ELSE pbs
    IN  [pbs |-> [p0 EXCEPT !.LastPrint = now, !.LastTime = now],
         shown |-> TRUE,
         bar |-> [at |-> now, current |-> current, total |-> total,
                  percent |-> Percent(current, total),
                  eta |-> calcETA(current, total, now - p0.StartTime)]]

\* ProgressBarState.fmtProgressBar; t1 is the clock read when StartTime is
\* zero, now the clock read after it.  shown = FALSE is the empty string.
fmtProgressBar(pbs, current, total, t1, now) ==
    LET p0 == IF pbs.StartTime = ZeroTime
              THEN [StartTime |-> t1, LastTime |-> t1, LastPrint |-> t1]
              ELSE pbs
    IN  IF UpdateInterval > 0 /\ now - p0.LastPrint < UpdateInterval /\ current # total
        THEN [pbs |-> p0, shown |-> FALSE,
              bar |-> [at |-> now, current |-> current, total |-> total,
                       percent |-> Percent(current, total),
                       eta |-> calcETA(current, total, now - p0.StartTime)]]
        ELSE [pbs |-> [p0 EXCEPT !.LastPrint = now,
                                 \* calcSpeed moves LastTime when time has passed
                                 !.LastTime = IF now - p0.StartTime <= 0 THEN @ ELSE now],
              shown |-> TRUE,
              bar |-> [at |-> now, current |-> current, total |-> total,
                       percent |-> Percent(current, total),
                       eta |-> calcETA(current, total, now - p0.StartTime)]]

RECURSIVE SumOver(_, _)
\* the sum of f over the set S of its arguments
SumOver(f, S) ==
    IF S = {} THEN 0
    ELSE LET x == CHOOSE y \in S : TRUE IN f[x] + SumOver(f, S \ {x})

\* the state of one Pull call before the request is sent
PullIdle ==
    [pc |-> "idle", model |-> <<>>, reqs |-> <<>>,
     pbs |-> NewProgressBarState, now |-> ZeroTime + 1,
     layerProgress |-> <<>>, current |-> 0, progressShown |-> FALSE,
     lines |-> <<>>, renders |-> <<>>, suppressed |-> <<>>,
     message |-> "", err |-> Nil]

\* Pull up to the response: the reference is normalized, the create request
\* is sent and a failure or a status other than 200 ends the call
PullRequest(model, code) ==
    LET from == normalizeHuggingFaceModelName(model)
        r == doRequest(code)
        st == [PullIdle EXCEPT !.model = model,
                               !.reqs = <<Req("POST /models/create", from, code)>>]
    IN  IF r.err # Nil
        THEN [st EXCEPT !.pc = "done", !.err = handleQueryError(r.err)]
        ELSE IF r.resp # StatusOK
             THEN [st EXCEPT !.pc = "done", !.err = Errorf("pulling failed with status")]
             ELSE [st EXCEPT !.pc = "streaming"]

\* the mutant of PullLine that merely skips a line of an unknown type
PullLineSkipUnknown(st, line, t1, now) ==
    LET read == [st EXCEPT !.lines = Append(@, line)]
    IN  IF line.kind = "empty" \/ line.kind \notin {"garbage", "progress", "error", "success"}
        THEN read
        ELSE IF line.kind = "garbage"
        THEN [read EXCEPT !.pc = "done", !.err = Errorf("error parsing progress message")]
        ELSE IF line.kind = "error"
        THEN [read EXCEPT !.pc = "done", !.err = Errorf("error pulling model")]
        ELSE IF line.kind = "success"
        THEN [read EXCEPT !.pc = "done", !.message = line.message]
        ELSE read

\* the mutant of PullLine that adds a layer's new value to its old one
PullLineAccumulates(st, line, t1, now) ==
    LET read == [st EXCEPT !.lines = Append(@, line)]
    IN  IF line.kind = "empty" THEN read
        ELSE IF line.kind = "garbage"
        THEN [read EXCEPT !.pc = "done", !.err = Errorf("error parsing progress message")]
        ELSE IF line.kind = "progress"
        THEN LET lp == [id \in DOMAIN st.layerProgress \cup {line.id} |->
                           IF id # line.id THEN st.layerProgress[id]
                           ELSE IF id \in DOMAIN st.layerProgress
                           THEN st.layerProgress[id] + line.current
                           ELSE line.current]
                 current == SumOver(lp, DOMAIN lp)
                 f == fmtProgressBar(st.pbs, current, line.total, t1, now)
             IN  [read EXCEPT !.layerProgress = lp,
                              !.current = current,
                              !.pbs = f.pbs,
                              !.now = now,
                              !.renders = IF f.shown THEN Append(@, f.bar) ELSE @,
                              !.suppressed = IF f.shown THEN <<>> ELSE Append(@, f.bar),
                              !.progressShown = @ \/ f.shown]
        ELSE IF line.kind = "error"
        THEN [read EXCEPT !.pc = "done", !.err = Errorf("error pulling model")]
        ELSE IF line.kind = "success"
        THEN [read EXCEPT !.pc = "done", !.message = line.message]
        ELSE [read EXCEPT !.pc = "done", !.err = Errorf("unknown message type")]

\* one turn of Pull's scanner loop on the line just read
PullLine(st, line, t1, now) ==
    LET read == [st EXCEPT !.lines = Append(@, line)]
    IN  IF line.kind = "empty" THEN read
        ELSE IF line.kind = "garbage"
        THEN [read EXCEPT !.pc = "done", !.err = Errorf("error parsing progress message")]
        ELSE IF line.kind = "progress"
        THEN LET lp == [id \in DOMAIN st.layerProgress \cup {line.id} |->
                           IF id = line.id THEN line.current ELSE st.layerProgress[id]]
                 current == SumOver(lp, DOMAIN lp)
                 f == fmtProgressBar(st.pbs, current, line.total, t1, now)
             IN  [read EXCEPT !.layerProgress = lp,
                              !.current = current,
                              !.pbs = f.pbs,
                              !.now = now,
                              !.renders = IF f.shown THEN Append(@, f.bar) ELSE @,
                              !.suppressed = IF f.shown THEN <<>> ELSE Append(@, f.bar),
                              !.progressShown = @ \/ f.shown]
        ELSE IF line.kind = "error"
        THEN [read EXCEPT !.pc = "done", !.err = Errorf("error pulling model")]
        ELSE IF line.kind = "success"
        THEN [read EXCEPT !.pc = "done", !.message = line.message]
        ELSE [read EXCEPT !.pc = "done", !.err = Errorf("unknown message type")]

\* the scanner reports the end of the stream
PullEndOfStream(st) ==
    [st EXCEPT !.pc = "done", !.err = Errorf("unexpected end of stream while pulling model")]

----------------------------------------------------------------------------
(* The pull of one model, line by line.                                    *)

\* the references the pull specification pulls
PullModels == {<<"a", "i", "/", "s">>, HFPrefix \o <<"A", "b">>}

StreamLines ==
    ProgressLines \cup {EmptyLine, GarbageLine, ErrorLine, SuccessLine, UnknownLine}

\* Pull is called: the request is sent and answered
PullBegin ==
    /\ pull.pc = "idle"
    /\ \E model \in PullModels, code \in Codes \cup {NoResponse} :
          pull' = PullRequest(model, code)
    /\ UNCHANGED <<call, run, tracker, chat, hist, session, eval, install, compose>>

\* the scanner yields the next line of the body
PullScan ==
    /\ pull.pc = "streaming"
    /\ Len(pull.lines) < MaxLines
    /\ \E line \in StreamLines :
          \E d1 \in (IF line.kind = "progress" /\ pull.pbs.StartTime = ZeroTime
                     THEN Delays ELSE {0}),
             d2 \in (IF line.kind = "progress" THEN Delays ELSE {0}) :
                pull' = PullLine(pull, line, pull.now + d1, pull.now + d1 + d2)
    /\ UNCHANGED <<call, run, tracker, chat, hist, session, eval, install, compose>>

\* the body ends
PullEOF ==
    /\ pull.pc = "streaming"
    /\ pull' = PullEndOfStream(pull)
    /\ UNCHANGED <<call, run, tracker, chat, hist, session, eval, install, compose>>

PullNext == PullBegin \/ PullScan \/ PullEOF

----------------------------------------------------------------------------
(* Model references and the listing the short-id lookup reads.             *)

Rep(c, n) == [i \in 1..n |-> c]

ID1 == Sha256Prefix \o Rep("a", 12) \o <<"1">>
ID2 == Sha256Prefix \o Rep("a", 12) \o <<"2">>
ID3 == Sha256Prefix \o Rep("b", 12) \o <<"3">>

\* the ids the runner lists: digests, "sha256:" and at least 12 characters
ModelIDs == {ID1, ID2, ID3}

\* m.ID[7:19]
ShortID(id) == SubSeq(id, 8, 19)

RECURSIVE SeqsUpTo(_, _)
\* the sequences of at most n distinct elements of S
SeqsUpTo(S, n) ==
    IF n = 0 THEN {<<>>}
    ELSE LET shorter == SeqsUpTo(S, n - 1)
         IN  shorter \cup {Append(q, x) : q \in {t \in shorter : Len(t) = n - 1},
                                          x \in S}

Injective(q) == \A i, j \in 1..Len(q) : i # j => q[i] # q[j]

ModelLists == {ms \in SeqsUpTo(ModelIDs, MaxModels) : Injective(ms)}

RefPrefixes == {<<>>, HFPrefix, <<"H", "F", ".", "c", "o", "/">>, <<"/">>}

RefBodies == {<<>>, <<"A", "b">>, ShortID(ID1), TrimPrefix(ID1, Sha256Prefix), ID1,
              <<"a", "/", "B">>}

RefSuffixes == {<<>>, <<"/">>}

\* the references handed to the client
References == {p \o b \o s : p \in RefPrefixes, b \in RefBodies, s \in RefSuffixes}

AllCodes == Codes \cup {NoResponse}

\* an answer to a request: its status, whether its body decodes, and the
\* models a listing holds
Answer(code, json, models) == [code |-> code, json |-> json, models |-> models]

BodyAnswers ==
    {Answer(c, TRUE, <<>>) : c \in AllCodes} \cup {Answer(StatusOK, FALSE, <<>>)}

ListAnswers ==
    BodyAnswers \cup {Answer(StatusOK, TRUE, ms) : ms \in ModelLists}

\* the mutant of listRawWithQuery without the NotFound sentinel
listRawWithQueryPlain404(model, code) ==
    LET r == doRequest(code)
    IN  IF r.err # Nil THEN [ok |-> FALSE, err |-> handleQueryError(r.err)]
        ELSE IF r.resp # StatusOK
             THEN [ok |-> FALSE, err |-> Errorf("failed to list models")]
             ELSE [ok |-> TRUE, err |-> Nil]

\* Client.listRawWithQuery (and listRaw): the body, or the error
listRawWithQuery(model, code) ==
    LET r == doRequest(code)
    IN  IF r.err # Nil THEN [ok |-> FALSE, err |-> handleQueryError(r.err)]
        ELSE IF r.resp # StatusOK
             THEN IF model # <<>> /\ r.resp = StatusNotFound
                  THEN [ok |-> FALSE, err |-> Wrap("model", ErrNotFound)]
                  ELSE [ok |-> FALSE, err |-> Errorf("failed to list models")]
             ELSE [ok |-> TRUE, err |-> Nil]

\* whether model m of the listing is the one the id names
MatchesID(m, id) ==
    ShortID(m) = id \/ TrimPrefix(m, Sha256Prefix) = id \/ m = id

\* the mutant of fullModelID that returns the last match of the listing
fullModelIDLast(id, ans) ==
    LET raw == listRawWithQuery(<<>>, ans.code)
        reqs == <<ListReq(ans)>>
        hits == {i \in 1..Len(ans.models) : MatchesID(ans.models[i], id)}
    IN  IF raw.err # Nil THEN [id |-> <<>>, err |-> raw.err, reqs |-> reqs]
        ELSE IF ~ans.json
        THEN [id |-> <<>>, err |-> Errorf("failed to unmarshal response body"), reqs |-> reqs]
        ELSE IF hits = {}
        THEN [id |-> <<>>, err |-> Errorf("model with ID not found"), reqs |-> reqs]
        ELSE [id |-> ans.models[CHOOSE i \in hits : \A j \in hits : i >= j],
              err |-> Nil, reqs |-> reqs]

\* Client.fullModelID
fullModelID(id, ans) ==
    LET raw == listRawWithQuery(<<>>, ans.code)
        reqs == <<ListReq(ans)>>
        hits == {i \in 1..Len(ans.models) : MatchesID(ans.models[i], id)}
    IN  IF raw.err # Nil THEN [id |-> <<>>, err |-> raw.err, reqs |-> reqs]
        ELSE IF ~ans.json
        THEN [id |-> <<>>, err |-> Errorf("failed to unmarshal response body"), reqs |-> reqs]
        ELSE IF hits = {}
        THEN [id |-> <<>>, err |-> Errorf("model with ID not found"), reqs |-> reqs]
        ELSE [id |-> ans.models[CHOOSE i \in hits : \A j \in hits : i <= j],
              err |-> Nil, reqs |-> reqs]

\* the condition under which Inspect, InspectOpenAI, Chat and Tag look the
\* reference up: !strings.Contains(strings.Trim(model, "/"), "/")
IsBareID(model) == ~ContainsSlash(TrimSlashes(model))

----------------------------------------------------------------------------
(* The chat stream engine (Client.Chat).                                   *)

\* the most lines one chat stream is read for
MaxChatLines == 3

\* a line of the chat response body: kind "blank" is the empty line, "other"
\* a line without the "data: " prefix, "done" is "data: [DONE]", "garbage" a
\* data line that json.Unmarshal rejects, and "chunk" a decoded chunk with
\* its number of choices and the two deltas of choices[0]
ChatLineOf(kind, choices, reasoning, content) ==
    [kind |-> kind, choices |-> choices, reasoning |-> reasoning, content |-> content]

ReasoningFragments == {"", "r1", "r2"}
ContentFragments == {"", "c1", "c2"}

ChatChunks ==
    {ChatLineOf("chunk", 1, r, c) : r \in ReasoningFragments, c \in ContentFragments}
        \cup {ChatLineOf("chunk", 0, "", "")}

ChatLines ==
    ChatChunks \cup {ChatLineOf(k, 0, "", "") : k \in {"blank", "other", "done", "garbage"}}

\* what Chat prints
TwoNewlines == [t |-> "newlines", s |-> ""]
ThinkingHeader == [t |-> "thinking", s |-> ""]
ReasoningText(s) == [t |-> "reasoning", s |-> s]
ContentText(s) == [t |-> "content", s |-> s]

ChatIdle ==
    [pc |-> "idle", model |-> <<>>, reqs |-> <<>>, printerState |-> "None",
     out |-> <<>>, lines |-> <<>>, prev |-> "None", emitted |-> <<>>, err |-> Nil,
     unread |-> <<>>, ended |-> "none"]

\* Chat up to the response: the reference is normalized, a bare id is looked
\* up (a failed lookup is ignored), and the completion request is sent
ChatRequest(model, lookup, code) ==
    LET m == normalizeHuggingFaceModelName(model)
        f == fullModelID(m, lookup)
        looked == IsBareID(m)
        sent == IF looked /\ f.err = Nil THEN f.id ELSE m
        reqs == (IF looked THEN f.reqs ELSE <<>>)
                    \o <<Req("POST /chat/completions", sent, code)>>
        r == doRequestWithAuth(code)
        st == [ChatIdle EXCEPT !.model = model, !.reqs = reqs]
    IN  IF r.err # Nil
        THEN [st EXCEPT !.pc = "done", !.err = handleQueryError(r.err)]
        ELSE IF r.resp # StatusOK
             THEN [st EXCEPT !.pc = "done", !.err = Errorf("error response")]
             ELSE [st EXCEPT !.pc = "streaming"]

\* the mutant of ReasoningPrints that prints the header before every fragment
ReasoningPrintsHeaderAlways(ps, chunk) ==
    IF chunk.reasoning = "" THEN <<>>
    ELSE (IF ps = "Content" THEN <<TwoNewlines>> ELSE <<>>)
            \o <<ThinkingHeader, ReasoningText(chunk.reasoning)>>

\* what the reasoning half of a chunk prints in printer state ps
ReasoningPrints(ps, chunk) ==
    IF chunk.reasoning = "" THEN <<>>
    ELSE (IF ps = "Content" THEN <<TwoNewlines>> ELSE <<>>)
            \o (IF ps # "Reasoning" THEN <<ThinkingHeader>> ELSE <<>>)
            \o <<ReasoningText(chunk.reasoning)>>

\* the mutant of ContentPrints that loses the fragment that follows reasoning
ContentPrintsAfterBreakOnly(ps, chunk) ==
    IF chunk.content = "" THEN <<>>
    ELSE IF ps = "Reasoning" THEN <<TwoNewlines>> ELSE <<ContentText(chunk.content)>>

\* what the content half of a chunk prints in printer state ps
ContentPrints(ps, chunk) ==
    IF chunk.content = "" THEN <<>>
    ELSE (IF ps = "Reasoning" THEN <<TwoNewlines>> ELSE <<>>)
            \o <<ContentText(chunk.content)>>

\* the mutant of ChatLine that reads on after "data: [DONE]"
ChatLinePastDone(st, line) ==
    LET read == [st EXCEPT !.lines = Append(@, line), !.prev = st.printerState,
                           !.emitted = <<>>]
    IN  IF line.kind \in {"blank", "other", "done"} THEN read
        ELSE IF line.kind = "garbage"
        THEN [read EXCEPT !.pc = "done", !.err = Errorf("error parsing stream response")]
        ELSE IF line.choices > 0
        THEN LET ps1 == IF line.reasoning # "" THEN "Reasoning" ELSE st.printerState
                 ps2 == IF line.content # "" THEN "Content" ELSE ps1
                 printed == ReasoningPrints(st.printerState, line)
                                \o ContentPrints(ps1, line)
             IN  [read EXCEPT !.printerState = ps2,
                              !.emitted = printed,
                              !.out = @ \o printed]
        ELSE read

\* one turn of Chat's scanner loop on the line just read
ChatLine(st, line) ==
    LET read == [st EXCEPT !.lines = Append(@, line), !.prev = st.printerState,
                           !.emitted = <<>>]
    IN  IF line.kind = "blank" \/ line.kind = "other" THEN read
        ELSE IF line.kind = "done" THEN [read EXCEPT !.pc = "done"]
        ELSE IF line.kind = "garbage"
        THEN [read EXCEPT !.pc = "done", !.err = Errorf("error parsing stream response")]
        ELSE IF line.choices > 0
        THEN LET ps1 == IF line.reasoning # "" THEN "Reasoning" ELSE st.printerState
                 ps2 == IF line.content # "" THEN "Content" ELSE ps1
                 printed == ReasoningPrints(st.printerState, line)
                                \o ContentPrints(ps1, line)
             IN  [read EXCEPT !.printerState = ps2,
                              !.emitted = printed,
                              !.out = @ \o printed]
        ELSE read

\* the mutant of ChatEndOfStream that, as Pull does, takes a body that ended
\* before "data: [DONE]" for a failure
ChatEndOfStreamStrict(st, readErr) ==
    [st EXCEPT !.pc = "done",
               !.ended = IF readErr THEN "read error" ELSE "end of body",
               !.err = IF readErr THEN Errorf("error reading response stream")
                       ELSE Errorf("unexpected end of stream")]

\* the scanner stops: the body ended (readErr = FALSE) or reading it failed;
\* ended records which of the two it was
ChatEndOfStream(st, readErr) ==
    [st EXCEPT !.pc = "done",
               !.ended = IF readErr THEN "read error" ELSE "end of body",
               !.err = IF readErr THEN Errorf("error reading response stream") ELSE Nil]

\* the references the chat specification chats with
ChatModels == {<<"a", "i", "/", "s">>, ShortID(ID1)}

ChatBegin ==
    /\ chat.pc = "idle"
    /\ \E model \in ChatModels, code \in AllCodes,
          lookup \in {Answer(StatusOK, TRUE, <<ID1>>), Answer(StatusNotFound, TRUE, <<>>)} :
            chat' = ChatRequest(model, lookup, code)
    /\ UNCHANGED <<call, run, pull, tracker, hist, session, eval, install, compose>>

ChatScan ==
    /\ chat.pc = "streaming"
    /\ Len(chat.lines) < MaxChatLines
    /\ \E line \in ChatLines,
          rest \in SeqsUpTo(ChatLines, 1) :
            LET st == ChatLine(chat, line)
            IN  \* the lines of the body that Chat leaves unread when it stops
                /\ st.pc # "done" => rest = <<>>
                /\ chat' = [st EXCEPT !.unread = rest]
    /\ UNCHANGED <<call, run, pull, tracker, hist, session, eval, install, compose>>

ChatEOF ==
    /\ chat.pc = "streaming"
    /\ \E readErr \in BOOLEAN : chat' = ChatEndOfStream(chat, readErr)
    /\ UNCHANGED <<call, run, pull, tracker, hist, session, eval, install, compose>>

ChatNext == ChatBegin \/ ChatScan \/ ChatEOF

----------------------------------------------------------------------------
(* The Runner Client's operations, each as one call.                       *)

\* what a finished call leaves: the operation, the references it was given,
\* the requests it sent in order, the error it returned (Status: the Error
\* field), Status's Running field and Remove's report
Outcome(op, args, reqs, err) ==
    [op |-> op, args |-> args, reqs |-> reqs, err |-> err,
     running |-> FALSE, report |-> <<>>]

NoCall == Outcome("none", <<>>, <<>>, Nil)

\* the mutant of Status that reports the 503 of a starting runner as an error
StatusStrict(probe, status) ==
    LET r == doRequest(probe)
        reqs == <<Req("GET /models", <<>>, probe)>>
    IN  IF r.err # Nil
        THEN Outcome("Status", <<>>, reqs, handleQueryError(r.err))
        ELSE IF r.resp = StatusOK
        THEN [Outcome("Status", <<>>,
                      reqs \o <<Req("GET /inference/status", <<>>, status)>>, Nil)
                 EXCEPT !.running = TRUE,
                        !.report = IF doRequest(status).err # Nil
                                   THEN <<"error querying status">>
                                   ELSE <<"status body">>]
        ELSE Outcome("Status", <<>>, reqs, Errorf("unexpected status code"))

\* Client.Status
Status(probe, status) ==
    LET r == doRequest(probe)
        reqs == <<Req("GET /models", <<>>, probe)>>
    IN  IF r.err # Nil
        THEN LET err == handleQueryError(r.err)
             IN  IF ErrorsIs(err, ErrServiceUnavailable)
                 THEN Outcome("Status", <<>>, reqs, Nil)
                 ELSE Outcome("Status", <<>>, reqs, err)
        ELSE IF r.resp = StatusOK
        THEN [Outcome("Status", <<>>,
                      reqs \o <<Req("GET /inference/status", <<>>, status)>>, Nil)
                 EXCEPT !.running = TRUE,
                        !.report = IF doRequest(status).err # Nil
                                   THEN <<"error querying status">>
                                   ELSE <<"status body">>]
        ELSE Outcome("Status", <<>>, reqs, Errorf("unexpected status code"))

RECURSIVE PullBody(_, _)
\* Pull's scanner loop over a whole body
PullBody(st, body) ==
    IF st.pc # "streaming" THEN st
    ELSE IF body = <<>> THEN PullEndOfStream(st)
    ELSE PullBody(PullLine(st, Head(body), st.now, st.now), Tail(body))

\* Client.Pull
Pull(model, code, body) ==
    LET st == PullBody(PullRequest(model, code), body)
    IN  Outcome("Pull", <<model>>, st.reqs, st.err)

RECURSIVE PushBody(_)
\* Push's scanner loop: the first line that is not empty or a progress
\* message decides
PushBody(body) ==
    IF body = <<>> THEN Errorf("unexpected end of stream while pushing model")
    ELSE LET line == Head(body)
         IN  IF line.kind = "empty" \/ line.kind = "progress" THEN PushBody(Tail(body))
             ELSE IF line.kind = "garbage" THEN Errorf("error parsing progress message")
             ELSE IF line.kind = "error" THEN Errorf("error pushing model")
             ELSE IF line.kind = "success" THEN Nil
             ELSE Errorf("unknown message type")

\* Client.Push
Push(model, code, body) ==
    LET m == normalizeHuggingFaceModelName(model)
        reqs == <<Req("POST /models/{ref}/push", m, code)>>
        r == doRequest(code)
    IN  IF r.err # Nil THEN Outcome("Push", <<model>>, reqs, handleQueryError(r.err))
        ELSE IF r.resp # StatusOK
        THEN Outcome("Push", <<model>>, reqs, Errorf("pushing failed with status"))
        ELSE Outcome("Push", <<model>>, reqs, PushBody(body))

\* Client.List
List(ans) ==
    LET raw == listRawWithQuery(<<>>, ans.code)
        reqs == <<ListReq(ans)>>
    IN  IF raw.err # Nil THEN Outcome("List", <<>>, reqs, raw.err)
        ELSE IF ~ans.json
        THEN Outcome("List", <<>>, reqs, Errorf("failed to unmarshal response body"))
        ELSE Outcome("List", <<>>, reqs, Nil)

\* the mutant of Inspect that goes on with the reference as given when the
\* lookup fails
InspectIgnoresLookup(model, lookup, ans) ==
    LET m == normalizeHuggingFaceModelName(model)
        looked == m # <<>> /\ IsBareID(m)
        f == fullModelID(m, lookup)
        sent == IF looked /\ f.err = Nil THEN f.id ELSE m
        raw == listRawWithQuery(sent, ans.code)
        reqs == (IF looked THEN f.reqs ELSE <<>>)
                    \o <<Req("GET /models/{ref}", sent, ans.code)>>
    IN  IF raw.err # Nil THEN Outcome("Inspect", <<model>>, reqs, raw.err)
        ELSE IF ~ans.json
        THEN Outcome("Inspect", <<model>>, reqs, Errorf("failed to unmarshal response body"))
        ELSE Outcome("Inspect", <<model>>, reqs, Nil)

\* Client.Inspect
Inspect(model, lookup, ans) ==
    LET m == normalizeHuggingFaceModelName(model)
        looked == m # <<>> /\ IsBareID(m)
        f == fullModelID(m, lookup)
        sent == IF looked THEN f.id ELSE m
        raw == listRawWithQuery(sent, ans.code)
        reqs == (IF looked THEN f.reqs ELSE <<>>)
                    \o <<Req("GET /models/{ref}", sent, ans.code)>>
    IN  IF looked /\ f.err # Nil
        THEN Outcome("Inspect", <<model>>, f.reqs, Errorf("invalid model name"))
        ELSE IF raw.err # Nil THEN Outcome("Inspect", <<model>>, reqs, raw.err)
        ELSE IF ~ans.json
        THEN Outcome("Inspect", <<model>>, reqs, Errorf("failed to unmarshal response body"))
        ELSE Outcome("Inspect", <<model>>, reqs, Nil)

\* Client.InspectOpenAI
InspectOpenAI(model, lookup, ans) ==
    LET m == normalizeHuggingFaceModelName(model)
        looked == IsBareID(m)
        f == fullModelID(m, lookup)
        sent == IF looked THEN f.id ELSE m
        raw == listRawWithQuery(sent, ans.code)
        reqs == (IF looked THEN f.reqs ELSE <<>>)
                    \o <<Req("GET /inference/v1/models/{ref}", sent, ans.code)>>
    IN  IF looked /\ f.err # Nil
        THEN Outcome("InspectOpenAI", <<model>>, f.reqs, Errorf("invalid model name"))
        ELSE IF raw.err # Nil THEN Outcome("InspectOpenAI", <<model>>, reqs, raw.err)
        ELSE IF ~ans.json
        THEN Outcome("InspectOpenAI", <<model>>, reqs,
                     Errorf("failed to unmarshal response body"))
        ELSE Outcome("InspectOpenAI", <<model>>, reqs, Nil)

RECURSIVE ChatBody(_, _)
\* Chat's scanner loop over a whole body that is read without error
ChatBody(st, body) ==
    IF st.pc # "streaming" THEN st
    ELSE IF body = <<>> THEN ChatEndOfStream(st, FALSE)
    ELSE ChatBody(ChatLine(st, Head(body)), Tail(body))

\* Client.Chat
Chat(model, lookup, code, body) ==
    LET st == ChatBody(ChatRequest(model, lookup, code), body)
    IN  Outcome("Chat", <<model>>, st.reqs, st.err)

\* Client.Tag
Tag(source, lookup, code) ==
    LET m == normalizeHuggingFaceModelName(source)
        f == fullModelID(m, lookup)
        looked == IsBareID(m)
        sent == IF looked /\ f.err = Nil THEN f.id ELSE m
        reqs == (IF looked THEN f.reqs ELSE <<>>)
                    \o <<Req("POST /models/{ref}/tag", sent, code)>>
        r == doRequest(code)
    IN  IF r.err # Nil THEN Outcome("Tag", <<source>>, reqs, handleQueryError(r.err))
        ELSE IF r.resp # StatusCreated
        THEN Outcome("Tag", <<source>>, reqs, Errorf("tagging failed with status"))
        ELSE Outcome("Tag", <<source>>, reqs, Nil)

\* the mutant of RemoveOne that goes on to the next reference after a 404
RemoveOnePast404(model, lookup, ans) ==
    LET m == normalizeHuggingFaceModelName(model)
        f == fullModelID(m, lookup)
        looked == ~ContainsSlash(m)
        sent == IF looked /\ f.err = Nil THEN f.id ELSE m
        reqs == (IF looked THEN f.reqs ELSE <<>>)
                    \o <<Req("DELETE /models/{ref}", sent, ans.code)>>
        r == doRequest(ans.code)
    IN  IF r.err # Nil
        THEN [reqs |-> reqs, err |-> handleQueryError(r.err), report |-> <<>>]
        ELSE IF r.resp = StatusOK
        THEN [reqs |-> reqs, err |-> Nil,
              report |-> IF ans.json THEN <<<<"Deleted", sent>>>>
                         ELSE <<<<"removed, response not parsed", sent>>>>]
        ELSE IF r.resp = StatusNotFound
        THEN [reqs |-> reqs, err |-> Nil, report |-> <<>>]
        ELSE [reqs |-> reqs, err |-> Errorf("removing failed with status"),
              report |-> <<>>]

\* one turn of Remove's loop: the requests it sends, the error that ends the
\* loop (Nil: the loop goes on) and what it adds to the report
RemoveOne(model, lookup, ans) ==
    LET m == normalizeHuggingFaceModelName(model)
        f == fullModelID(m, lookup)
        looked == ~ContainsSlash(m)
        sent == IF looked /\ f.err = Nil THEN f.id ELSE m
        reqs == (IF looked THEN f.reqs ELSE <<>>)
                    \o <<Req("DELETE /models/{ref}", sent, ans.code)>>
        r == doRequest(ans.code)
    IN  IF r.err # Nil
        THEN [reqs |-> reqs, err |-> handleQueryError(r.err), report |-> <<>>]
        ELSE IF r.resp = StatusOK
        THEN [reqs |-> reqs, err |-> Nil,
              report |-> IF ans.json THEN <<<<"Deleted", sent>>>>
                         ELSE <<<<"removed, response not parsed", sent>>>>]
        ELSE IF r.resp = StatusNotFound
        THEN [reqs |-> reqs, err |-> Errorf("no such model"), report |-> <<>>]
        ELSE [reqs |-> reqs, err |-> Errorf("removing failed with status"),
              report |-> <<>>]

\* the lookup answers and the DELETE answers Remove is tried with
RemoveLookups(models) ==
    {Answer(StatusOK, TRUE, models), Answer(StatusServiceUnavailable, TRUE, <<>>)}

RemoveAnswers ==
    {Answer(c, TRUE, <<>>) : c \in {StatusOK, StatusNotFound, StatusConflict,
                                     StatusServiceUnavailable, NoResponse}}
        \cup {Answer(StatusOK, FALSE, <<>>)}

RECURSIVE RemoveFrom(_, _, _, _)
\* Client.Remove from the i-th reference on, acc being the outcome so far:
\* every outcome the runner's answers can lead to
RemoveFrom(models, i, listed, acc) ==
    IF i > Len(models) THEN {acc}
    ELSE UNION {
        LET one == RemoveOne(models[i], lookup, ans)
            next == [acc EXCEPT !.reqs = @ \o one.reqs,
                                !.report = @ \o one.report,
                                !.err = one.err]
        IN  IF one.err # Nil THEN {next}
            ELSE RemoveFrom(models, i + 1, listed, next)
        : lookup \in (IF ContainsSlash(normalizeHuggingFaceModelName(models[i]))
                      THEN {Answer(StatusOK, TRUE, listed)}
                      ELSE RemoveLookups(listed)),
          ans \in RemoveAnswers }

\* Client.Remove
Remove(models, listed) == RemoveFrom(models, 1, listed, Outcome("Remove", models, <<>>, Nil))

\* PS, DF and Unload: one request, 200 and a body that decodes
Simple(op, route, ans) ==
    LET r == doRequest(ans.code)
        reqs == <<Req(route, <<>>, ans.code)>>
    IN  IF r.err # Nil THEN Outcome(op, <<>>, reqs, handleQueryError(r.err))
        ELSE IF r.resp # StatusOK THEN Outcome(op, <<>>, reqs, Errorf("failed"))
        ELSE IF ~ans.json
        THEN Outcome(op, <<>>, reqs, Errorf("failed to unmarshal response body"))
        ELSE Outcome(op, <<>>, reqs, Nil)

\* Client.PS
PS(ans) == Simple("PS", "GET /inference/ps", ans)

\* Client.DF
DF(ans) == Simple("DF", "GET /inference/df", ans)

\* Client.Unload
Unload(ans) == Simple("Unload", "POST /inference/unload", ans)

\* Client.ConfigureBackend
ConfigureBackend(code) ==
    LET r == doRequest(code)
        reqs == <<Req("POST /inference/_configure", <<>>, code)>>
    IN  IF r.err # Nil THEN Outcome("ConfigureBackend", <<>>, reqs, handleQueryError(r.err))
        ELSE IF r.resp # StatusAccepted
        THEN Outcome("ConfigureBackend", <<>>, reqs,
                     IF r.resp = StatusConflict THEN Errorf("body")
                     ELSE Errorf("body (status)"))
        ELSE Outcome("ConfigureBackend", <<>>, reqs, Nil)

\* Client.LoadModel: the request goes to the transport directly
LoadModel(code) ==
    LET reqs == <<Req("POST /models/load", <<>>, code)>>
    IN  IF code = NoResponse
        THEN Outcome("LoadModel", <<>>, reqs, handleQueryError(ErrTransport))
        ELSE IF code # StatusOK /\ code # StatusCreated
        THEN Outcome("LoadModel", <<>>, reqs, Errorf("load failed with status"))
        ELSE Outcome("LoadModel", <<>>, reqs, Nil)

----------------------------------------------------------------------------
(* The progress tracker of the pull command (ProgressTracker).             *)

\* the byte of a character, for the order sort.Strings sorts by
CharCode(c) ==
    CASE c = "1" -> 49 [] c = "2" -> 50 [] c = "3" -> 51 [] c = "5" -> 53
      [] c = "6" -> 54 [] c = ":" -> 58
      [] c = "a" -> 97 [] c = "b" -> 98 [] c = "c" -> 99 [] c = "h" -> 104
      [] c = "s" -> 115
      [] OTHER -> 0

RECURSIVE StringLess(_, _)
\* s < t as Go compares strings
StringLess(s, t) ==
    IF t = <<>> THEN FALSE
    ELSE IF s = <<>> THEN TRUE
    ELSE IF CharCode(Head(s)) # CharCode(Head(t)) THEN CharCode(Head(s)) < CharCode(Head(t))
    ELSE StringLess(Tail(s), Tail(t))

RECURSIVE SortStrings(_)
\* sort.Strings on the keys S of the layer map
SortStrings(S) ==
    IF S = {} THEN <<>>
    ELSE LET least == CHOOSE x \in S : \A y \in S \ {x} : StringLess(x, y)
         IN  <<least>> \o SortStrings(S \ {least})

\* the layer ids the pull stream names
LayerA == Sha256Prefix \o Rep("a", 12) \o <<"2">>
LayerB == Sha256Prefix \o Rep("a", 12) \o <<"1">>
LayerC == Rep("c", 13)
LayerD == <<"b">>

TrackerLayerIDs == {LayerA, LayerB, LayerC, LayerD}

\* the id a layer is shown by (UpdateLayer's shortID)
DisplayID(layerID) ==
    IF Len(layerID) > 12
    THEN IF HasPrefix(layerID, Sha256Prefix) THEN SubSeq(layerID, 8, 19)
         ELSE SubSeq(layerID, 1, 12)
    ELSE layerID

\* what the tracker writes to the terminal
ClearLine == [t |-> "clear line above", id |-> <<>>, status |-> "", filled |-> 0]
Newline == [t |-> "newline", id |-> <<>>, status |-> "", filled |-> 0]
FallbackLine == [t |-> "fallback", id |-> <<>>, status |-> "", filled |-> 0]
LayerLine(id, status, filled) ==
    [t |-> "layer", id |-> id, status |-> status, filled |-> filled]
FinalLine(id) == [t |-> "final", id |-> id, status |-> "Pull complete", filled |-> 0]

\* the width of the bar formatLayerProgress draws
BarWidth == 50

\* a goroutine that is in no call of the tracker
NoTrackerCall == [pc |-> "idle", op |-> "", id |-> <<>>, message |-> ""]

\* NewProgressTracker. printed is what the last call wrote, op that call, and
\* onScreen the progress lines the terminal shows that no call cleared yet;
\* writer and readers are the holders of the mutex, gs the calls under way
\* in goroutines 1 to 3, lastOut the call that wrote last
TrackerNew ==
    [layers |-> <<>>, lastLines |-> 0, isActive |-> TRUE,
     op |-> "new", printed |-> <<>>, onScreen |-> 0, has |-> FALSE,
     writer |-> 0, readers |-> {}, gs |-> [g \in 1..3 |-> NoTrackerCall],
     started |-> 0, stopReturned |-> FALSE, late |-> FALSE, lastOut |-> ""]

\* the terminal after a call wrote out: a layer line adds a line, a clear
\* removes the one above the cursor
Terminal(onScreen, out) ==
    onScreen + Cardinality({i \in 1..Len(out) : out[i].t = "layer"})
             - Cardinality({i \in 1..Len(out) : out[i].t = "clear line above"})

\* ProgressTracker.clearLines: what it writes
clearLines(pt) == [i \in 1..pt.lastLines |-> ClearLine]

\* ProgressTracker.formatLayerProgress: the id, the status and, for a layer
\* that is not complete, the filled part of the bar
formatLayerProgress(layer) ==
    IF layer.Complete THEN LayerLine(layer.ID, layer.Status, 0)
    ELSE LET filled == IF layer.Size > 0 THEN (layer.Current * BarWidth) \div layer.Size
                       ELSE 0
         IN  LayerLine(layer.ID, layer.Status,
                       IF filled > BarWidth THEN BarWidth ELSE filled)

\* ProgressTracker.render
render(pt) ==
    IF ~pt.isActive THEN pt
    ELSE LET ids == SortStrings(DOMAIN pt.layers)
             out == clearLines(pt)
                       \o [i \in 1..Len(ids) |-> formatLayerProgress(pt.layers[ids[i]])]
         IN  [pt EXCEPT !.lastLines = Len(ids), !.printed = out,
                        !.onScreen = Terminal(@, out)]

\* the status UpdateLayer reads from the message of the stream: a message
\* that contains "complete" (so also "Pull complete") is a finished download
StatusOfMessage(message) ==
    IF message \in {"Download complete", "Pull complete"} THEN "Download complete"
    ELSE IF message = "Extracting" THEN "Extracting"
    ELSE "Downloading"

\* UpdateLayer from the status to the store into the map
StoreLayer(pt, layerID, size, current, message) ==
    LET status == StatusOfMessage(message)
        complete == status = "Download complete"
        layer == [ID |-> DisplayID(layerID), Status |-> status, Size |-> size,
                  Current |-> IF complete THEN size ELSE current,
                  Complete |-> complete]
        layers == [id \in DOMAIN pt.layers \cup {layerID} |->
                      IF id = layerID THEN layer ELSE pt.layers[id]]
    IN  [pt EXCEPT !.op = "UpdateLayer", !.layers = layers]

\* ProgressTracker.UpdateLayer
UpdateLayer(pt, layerID, size, current, message) ==
    IF ~pt.isActive THEN [pt EXCEPT !.op = "UpdateLayer", !.printed = <<>>]
    ELSE render(StoreLayer(pt, layerID, size, current, message))

\* the mutant of showFinalState that shows each layer's last status
showFinalStateLastStatus(pt) ==
    IF DOMAIN pt.layers = {} THEN pt
    ELSE LET ids == SortStrings(DOMAIN pt.layers)
             out == clearLines(pt)
                       \o [i \in 1..Len(ids) |->
                              [FinalLine(pt.layers[ids[i]].ID)
                                  EXCEPT !.status = pt.layers[ids[i]].Status]]
         IN  [pt EXCEPT !.lastLines = 0, !.printed = out, !.onScreen = Terminal(@, out)]

\* ProgressTracker.showFinalState
showFinalState(pt) ==
    IF DOMAIN pt.layers = {} THEN pt
    ELSE LET ids == SortStrings(DOMAIN pt.layers)
             out == clearLines(pt)
                       \o [i \in 1..Len(ids) |-> FinalLine(pt.layers[ids[i]].ID)]
         IN  [pt EXCEPT !.lastLines = 0, !.printed = out, !.onScreen = Terminal(@, out)]

\* ProgressTracker.Stop
Stop(pt) ==
    LET stopped == [pt EXCEPT !.op = "Stop", !.isActive = FALSE, !.printed = <<>>]
    IN  IF DOMAIN pt.layers # {} THEN showFinalState(stopped)
        ELSE [stopped EXCEPT !.printed = <<Newline>>]

\* ProgressTracker.HasLayers
HasLayers(pt) ==
    [pt EXCEPT !.op = "HasLayers", !.printed = <<>>, !.has = DOMAIN pt.layers # {}]

\* the closure MultiLayerTUIProgress returns, on one message of the stream
progressFunc(pt, msg) ==
    IF msg.kind = "progress"
    THEN IF msg.id # <<>> /\ msg.size > 0
         THEN UpdateLayer(pt, msg.id, msg.size, msg.current, msg.message)
         ELSE [pt EXCEPT !.op = "fallback", !.printed = <<FallbackLine>>]
    ELSE [pt EXCEPT !.op = "ignored", !.printed = <<>>]

\* the messages the tracker is fed
TrackerMessages ==
    {[kind |-> k, id |-> id, size |-> size, current |-> 500, message |-> m] :
        k \in {"progress", "success"}, id \in TrackerLayerIDs \cup {<<>>},
        size \in {0, 1000},
        m \in {"", "Download complete", "Extracting", "Pull complete"}}

TrackerProgress ==
    /\ \E msg \in TrackerMessages : tracker' = progressFunc(tracker, msg)
    /\ UNCHANGED <<call, run, pull, chat, hist, session, eval, install, compose>>

TrackerStop ==
    /\ tracker' = Stop(tracker)
    /\ UNCHANGED <<call, run, pull, chat, hist, session, eval, install, compose>>

TrackerHasLayers ==
    /\ tracker' = HasLayers(tracker)
    /\ UNCHANGED <<call, run, pull, chat, hist, session, eval, install, compose>>

TrackerNext == TrackerProgress \/ TrackerStop \/ TrackerHasLayers

----------------------------------------------------------------------------
(* One ProgressTracker called from several goroutines.                     *)

\* the goroutines, and the most calls they make together
Goroutines == {1, 2, 3}
MaxTrackerCalls == 4

\* the layers and messages of the concurrent calls of UpdateLayer
RaceLayerIDs == {LayerA}
RaceMessages == {"", "Pull complete"}

\* sync.RWMutex: Lock waits until nobody holds it, RLock until no writer does
CanLockAnyTime(pt, g) == TRUE
CanLock(pt, g) == pt.writer = 0 /\ pt.readers = {}
CanRLock(pt, g) == pt.writer = 0

\* a goroutine calls UpdateLayer, Stop or HasLayers and comes to the Lock
\* or RLock of its first line
RaceCall ==
    /\ tracker.started < MaxTrackerCalls
    /\ \E g \in Goroutines :
        /\ tracker.gs[g].pc = "idle"
        /\ \E op \in {"UpdateLayer", "Stop", "HasLayers"},
              id \in RaceLayerIDs, m \in RaceMessages :
            /\ op # "UpdateLayer" => (id = LayerA /\ m = "")
            /\ tracker' = [tracker EXCEPT
                  !.started = @ + 1,
                  !.gs[g] = [pc |-> "lock", op |-> op, id |-> id, message |-> m]]
    /\ UNCHANGED <<call, run, pull, chat, hist, session, eval, install, compose>>

\* Lock or RLock returns
RaceLock ==
    /\ \E g \in Goroutines :
        /\ tracker.gs[g].pc = "lock"
        /\ IF tracker.gs[g].op = "HasLayers"
           THEN /\ CanRLock(tracker, g)
                /\ tracker' = [tracker EXCEPT !.readers = @ \cup {g}, !.gs[g].pc = "body"]
           ELSE /\ CanLock(tracker, g)
                /\ tracker' = [tracker EXCEPT !.writer = g, !.gs[g].pc = "body"]
    /\ UNCHANGED <<call, run, pull, chat, hist, session, eval, install, compose>>

\* the first statement after the lock: UpdateLayer reads isActive and
\* returns when it is false, Stop sets it to false, HasLayers reads the map
RaceEnter ==
    /\ \E g \in Goroutines :
        LET c == tracker.gs[g]
        IN  /\ c.pc = "body"
            /\ tracker' =
                 IF c.op = "UpdateLayer"
                 THEN [tracker EXCEPT !.gs[g].pc = IF tracker.isActive THEN "write" ELSE "unlock"]
                 ELSE IF c.op = "Stop"
                 THEN [tracker EXCEPT !.isActive = FALSE, !.gs[g].pc = "write"]
                 ELSE [HasLayers(tracker) EXCEPT !.gs[g].pc = "unlock"]
    /\ UNCHANGED <<call, run, pull, chat, hist, session, eval, install, compose>>

\* the rest of the body: UpdateLayer stores the layer and renders, Stop
\* shows the final state; late records an UpdateLayer that changes the map
\* or the counter or prints once a Stop has returned
RaceWrite ==
    /\ \E g \in Goroutines :
        LET c == tracker.gs[g]
            before == [tracker EXCEPT !.printed = <<>>]
            done == IF c.op = "UpdateLayer"
                    THEN render(StoreLayer(before, c.id, 1000, 500, c.message))
                    ELSE Stop(before)
        IN  /\ c.pc = "write"
            /\ tracker' = [done EXCEPT
                  !.gs[g].pc = "unlock",
                  !.lastOut = IF done.printed # <<>> THEN c.op ELSE @,
                  !.late = @ \/ (/\ c.op = "UpdateLayer"
                                 /\ tracker.stopReturned
                                 /\ \/ done.layers # tracker.layers
                                    \/ done.lastLines # tracker.lastLines
                                    \/ done.printed # <<>>)]
    /\ UNCHANGED <<call, run, pull, chat, hist, session, eval, install, compose>>

\* the deferred Unlock or RUnlock, and the call returns
RaceUnlock ==
    /\ \E g \in Goroutines :
        LET c == tracker.gs[g]
        IN  /\ c.pc = "unlock"
            /\ tracker' = [tracker EXCEPT
                  !.writer = IF @ = g THEN 0 ELSE @,
                  !.readers = @ \ {g},
                  !.stopReturned = @ \/ c.op = "Stop",
                  !.gs[g].pc = "idle"]
    /\ UNCHANGED <<call, run, pull, chat, hist, session, eval, install, compose>>

TrackerRaceNext == RaceCall \/ RaceLock \/ RaceEnter \/ RaceWrite \/ RaceUnlock

----------------------------------------------------------------------------
(* The `run` command (newRunCmd).                                          *)

\* the most lines the interactive loop reads
MaxTurns == 2

ValidBackends == <<"llama.cpp", "openai">>

\* the mutant of validateBackend that accepts every backend
validateBackendAny(backend) == Nil

\* commands.validateBackend
validateBackend(backend) ==
    IF \E i \in 1..Len(ValidBackends) : backend = ValidBackends[i] THEN Nil
    ELSE Errorf("invalid backend")

\* the values of --backend and of OPENAI_API_KEY the command is run with
Backends == {"", "llama.cpp", "openai", "OpenAI", "vllm"}
APIKeys == {"", "sk-key"}
RunModels == {<<>>, <<"a", "i", "/", "s">>, ShortID(ID1)}
Prompts == {"", "hello"}

\* strings.ToLower(userInput) == "/bye" and strings.TrimSpace(userInput) == ""
\* on the lines the loop is fed
UserInputs == {"/bye", "/BYE", "", "  ", "hello", "/help"}
IsBye(input) == input \in {"/bye", "/BYE"}
IsBlank(input) == input \in {"", "  "}

\* the bodies the command's pull and chat are answered with
PullBodies == {<<>>, <<SuccessLine>>, <<ErrorLine>>}
ChatBodies == {<<>>, <<ChatLineOf("chunk", 1, "", "c1"), ChatLineOf("done", 0, "", "")>>}
RunLookups ==
    {Answer(StatusOK, TRUE, <<ID1>>), Answer(StatusServiceUnavailable, TRUE, <<>>),
     Answer(StatusNotFound, TRUE, <<>>)}

RunIdle ==
    [pc |-> "idle", backend |-> "", apiKey |-> "", model |-> <<>>, prompt |-> "",
     ensured |-> FALSE, calls |-> <<>>, results |-> <<>>, reqs |-> <<>>, turns |-> 0,
     err |-> Nil]

\* RunE up to the use of the runner: the backend and the API key are checked
RunValidate(backend, envKey, model, prompt) ==
    LET st == [RunIdle EXCEPT !.backend = backend, !.model = model, !.prompt = prompt]
    IN  IF backend # "" /\ validateBackend(backend) # Nil
        THEN [st EXCEPT !.pc = "done", !.err = validateBackend(backend)]
        ELSE IF backend = "openai" /\ envKey = ""
        THEN [st EXCEPT !.pc = "done", !.err = Errorf("OPENAI_API_KEY is required")]
        ELSE [st EXCEPT !.pc = "ensure",
                        !.apiKey = IF backend = "openai" THEN envKey ELSE ""]

\* what a call of the client adds to the command's record
Called(st, outcome) ==
    [st EXCEPT !.calls = Append(@, outcome.op), !.results = Append(@, outcome.err),
               !.reqs = @ \o outcome.reqs]

RunStart ==
    /\ run.pc = "idle"
    /\ \E backend \in Backends, envKey \in APIKeys, model \in RunModels,
          prompt \in Prompts :
            run' = RunValidate(backend, envKey, model, prompt)
    /\ UNCHANGED <<call, pull, tracker, chat, hist, session, eval, install, compose>>

\* ensureStandaloneRunnerAvailable returns
RunEnsure ==
    /\ run.pc = "ensure"
    /\ \E ok \in BOOLEAN :
          run' = IF ok
                 THEN [run EXCEPT !.ensured = TRUE,
                                  !.pc = IF run.backend # "openai" THEN "inspect"
                                         ELSE "prompt"]
                 ELSE [run EXCEPT !.ensured = TRUE, !.pc = "done",
                                  !.err = Wrap("unable to initialize standalone model runner",
                                               Errorf("ensure failed"))]
    /\ UNCHANGED <<call, pull, tracker, chat, hist, session, eval, install, compose>>

\* the model is inspected; only a model that is not found is pulled
RunInspect ==
    /\ run.pc = "inspect"
    /\ \E lookup \in RunLookups, ans \in BodyAnswers :
          LET o == Inspect(run.model, lookup, ans)
          IN  run' = IF o.err = Nil THEN [Called(run, o) EXCEPT !.pc = "prompt"]
                     ELSE IF ~ErrorsIs(o.err, ErrNotFound)
                     THEN [Called(run, o) EXCEPT !.pc = "done", !.err = o.err]
                     ELSE [Called(run, o) EXCEPT !.pc = "pull"]
    /\ UNCHANGED <<call, pull, tracker, chat, hist, session, eval, install, compose>>

\* pullModel
RunPull ==
    /\ run.pc = "pull"
    /\ \E code \in AllCodes, body \in PullBodies :
          LET o == Pull(run.model, code, body)
          IN  run' = IF o.err # Nil THEN [Called(run, o) EXCEPT !.pc = "done", !.err = o.err]
                     ELSE [Called(run, o) EXCEPT !.pc = "prompt"]
    /\ UNCHANGED <<call, pull, tracker, chat, hist, session, eval, install, compose>>

\* a prompt given as an argument is answered once
RunChatOnce ==
    /\ run.pc = "prompt"
    /\ run.prompt # ""
    /\ \E lookup \in RunLookups, code \in AllCodes, body \in ChatBodies :
          LET o == Chat(run.model, lookup, code, body)
          IN  run' = [Called(run, o) EXCEPT !.pc = "done", !.err = o.err]
    /\ UNCHANGED <<call, pull, tracker, chat, hist, session, eval, install, compose>>

\* without a prompt the interactive loop reads a line and answers it
RunInteractive ==
    /\ run.pc = "prompt"
    /\ run.prompt = ""
    /\ run.turns < MaxTurns
    /\ \E input \in UserInputs, lookup \in RunLookups, code \in {StatusOK, StatusNotFound},
          body \in ChatBodies :
            LET o == Chat(run.model, lookup, code, body)
                read == [run EXCEPT !.turns = @ + 1]
            IN  run' = IF IsBye(input) THEN [read EXCEPT !.pc = "done"]
                       ELSE IF IsBlank(input) THEN read
                       ELSE Called(read, o)
    /\ UNCHANGED <<call, pull, tracker, chat, hist, session, eval, install, compose>>

\* the input ends, or reading it fails
RunInputEnds ==
    /\ run.pc = "prompt"
    /\ run.prompt = ""
    /\ \E failed \in BOOLEAN :
          run' = [run EXCEPT !.pc = "done",
                             !.err = IF failed THEN Errorf("Error reading input") ELSE Nil]
    /\ UNCHANGED <<call, pull, tracker, chat, hist, session, eval, install, compose>>

RunNext ==
    RunStart \/ RunEnsure \/ RunInspect \/ RunPull \/ RunChatOnce \/ RunInteractive
        \/ RunInputEnds

----------------------------------------------------------------------------
(* The client's operations as actions.  The client keeps no state between  *)
(* calls, so a behaviour is one call.                                      *)

ClientPull ==
    /\ call = NoCall
    /\ \E x \in References, code \in AllCodes, body \in PullBodies :
          call' = Pull(x, code, body)
    /\ UNCHANGED <<run, pull, tracker, chat, hist, session, eval, install, compose>>

ClientPush ==
    /\ call = NoCall
    /\ \E x \in References, code \in AllCodes, body \in PullBodies :
          call' = Push(x, code, body)
    /\ UNCHANGED <<run, pull, tracker, chat, hist, session, eval, install, compose>>

ClientList ==
    /\ call = NoCall
    /\ \E ans \in ListAnswers : call' = List(ans)
    /\ UNCHANGED <<run, pull, tracker, chat, hist, session, eval, install, compose>>

ClientInspect ==
    /\ call = NoCall
    /\ \E x \in References, lookup \in ListAnswers, ans \in BodyAnswers :
          call' = Inspect(x, lookup, ans)
    /\ UNCHANGED <<run, pull, tracker, chat, hist, session, eval, install, compose>>

ClientInspectOpenAI ==
    /\ call = NoCall
    /\ \E x \in References, lookup \in ListAnswers, ans \in BodyAnswers :
          call' = InspectOpenAI(x, lookup, ans)
    /\ UNCHANGED <<run, pull, tracker, chat, hist, session, eval, install, compose>>

ClientChat ==
    /\ call = NoCall
    /\ \E x \in References, lookup \in ListAnswers, code \in AllCodes, body \in ChatBodies :
          call' = Chat(x, lookup, code, body)
    /\ UNCHANGED <<run, pull, tracker, chat, hist, session, eval, install, compose>>

ClientTag ==
    /\ call = NoCall
    /\ \E x \in References, lookup \in ListAnswers, code \in AllCodes :
          call' = Tag(x, lookup, code)
    /\ UNCHANGED <<run, pull, tracker, chat, hist, session, eval, install, compose>>

\* the references Remove is tried with
RemoveRefs == {HFPrefix \o <<"A", "b">>, ShortID(ID1), <<"A", "b", "/">>}

ClientRemove ==
    /\ call = NoCall
    /\ \E models \in SeqsUpTo(RemoveRefs, MaxRemove) \ {<<>>}, listed \in ModelLists :
          \E o \in Remove(models, listed) : call' = o
    /\ UNCHANGED <<run, pull, tracker, chat, hist, session, eval, install, compose>>

ClientPS ==
    /\ call = NoCall
    /\ \E ans \in BodyAnswers : call' = PS(ans)
    /\ UNCHANGED <<run, pull, tracker, chat, hist, session, eval, install, compose>>

ClientDF ==
    /\ call = NoCall
    /\ \E ans \in BodyAnswers : call' = DF(ans)
    /\ UNCHANGED <<run, pull, tracker, chat, hist, session, eval, install, compose>>

ClientUnload ==
    /\ call = NoCall
    /\ \E ans \in BodyAnswers : call' = Unload(ans)
    /\ UNCHANGED <<run, pull, tracker, chat, hist, session, eval, install, compose>>

ClientConfigureBackend ==
    /\ call = NoCall
    /\ \E code \in AllCodes : call' = ConfigureBackend(code)
    /\ UNCHANGED <<run, pull, tracker, chat, hist, session, eval, install, compose>>

ClientLoadModel ==
    /\ call = NoCall
    /\ \E code \in AllCodes : call' = LoadModel(code)
    /\ UNCHANGED <<run, pull, tracker, chat, hist, session, eval, install, compose>>

ClientStatus ==
    /\ call = NoCall
    /\ \E probe \in AllCodes, status \in AllCodes : call' = Status(probe, status)
    /\ UNCHANGED <<run, pull, tracker, chat, hist, session, eval, install, compose>>

ClientNext ==
    ClientPull \/ ClientPush \/ ClientList \/ ClientInspect \/ ClientInspectOpenAI
        \/ ClientChat \/ ClientTag \/ ClientRemove \/ ClientPS \/ ClientDF
        \/ ClientUnload \/ ClientConfigureBackend \/ ClientLoadModel \/ ClientStatus

----------------------------------------------------------------------------
(* The command history (package history).                                  *)

\* History.MaxHistoryLength, 100 in the source, scaled down: Append only
\* compares the length of the history with it
MaxHistoryLength == 3

\* the most Appends one History performs
MaxAppends == 4

NL == "\n"

\* strings.Contains(question, "\n")
ContainsNewline(s) == \E i \in 1..Len(s) : s[i] = NL

\* strings.Join(h, "\n")
RECURSIVE Join(_)
Join(h) ==
    IF h = <<>> THEN <<>>
    ELSE IF Len(h) = 1 THEN h[1]
    ELSE h[1] \o <<NL>> \o Join(Tail(h))

\* strings.TrimSuffix(data, "\n")
TrimSuffixNewline(data) ==
    IF Len(data) > 0 /\ data[Len(data)] = NL THEN SubSeq(data, 1, Len(data) - 1)
    ELSE data

\* strings.SplitSeq(data, "\n"): the pieces between the newlines, at least one
RECURSIVE Split(_)
Split(data) ==
    LET nls == {i \in 1..Len(data) : data[i] = NL}
    IN  IF nls = {} THEN <<data>>
        ELSE LET i == CHOOSE k \in nls : \A j \in nls : k <= j
             IN  <<SubSeq(data, 1, i - 1)>> \o Split(SubSeq(data, i + 1, Len(data)))

\* the loop of load: a line is kept the first time it is seen
RECURSIVE Dedup(_)
Dedup(lines) ==
    IF lines = <<>> THEN <<>>
    ELSE LET front == Dedup(SubSeq(lines, 1, Len(lines) - 1))
             x == lines[Len(lines)]
         IN  IF \E i \in 1..Len(front) : front[i] = x THEN front ELSE Append(front, x)

\* a path of the file system: absent, or a file with its bytes
NoFile == [exists |-> FALSE, data |-> <<>>]
File(data) == [exists |-> TRUE, data |-> data]

\* History.load: an absent file leaves the history as it is, a file that
\* cannot be read is an error
load(history, file, readErr) ==
    IF ~file.exists THEN [history |-> history, err |-> Nil]
    ELSE IF readErr THEN [history |-> history, err |-> Errorf("read history.txt")]
    ELSE [history |-> Dedup(Split(TrimSuffixNewline(file.data))), err |-> Nil]

\* the mutant of HistoryAppend that drops the newest entries of a full history
HistoryAppendKeepOldest(history, question) ==
    LET h == Append(history, question)
    IN  IF Len(h) > MaxHistoryLength THEN SubSeq(h, 1, MaxHistoryLength) ELSE h

\* History.Append, the in-memory half: push, then keep the last
\* MaxHistoryLength entries
HistoryAppend(history, question) ==
    LET h == Append(history, question)
    IN  IF Len(h) > MaxHistoryLength
        THEN SubSeq(h, Len(h) - MaxHistoryLength + 1, Len(h))
        ELSE h

\* the lines given to Append and the history files New may find
HistoryLines == {<<"a">>, <<"b">>, <<>>, <<"a", NL, "b">>}
FoundFiles ==
    {NoFile, File(<<>>), File(Join(<<<<"a">>, <<"b">>, <<"a">>>>)),
     File(Join(<<<<"a">>, <<"b">>, <<"c">>, <<"d">>, <<"e">>>>) \o <<NL>>)}

\* the processes that share the history file
Procs == {1, 2}

\* a process before history.New; fd is the file it has open for writing
NoHistory ==
    [pc |-> "none", history |-> <<>>, question |-> <<>>, buf |-> <<>>, err |-> Nil,
     appends |-> 0, before |-> [history |-> <<>>, file |-> NoFile], wrote |-> FALSE,
     fd |-> 0]

\* the file system and the processes: the files that were created, by
\* number, with their bytes; the file (0: none) that the history path and
\* its .tmp neighbour name; whether the history path ever named a file
HistNone ==
    [pc |-> "unset", files |-> <<>>, path |-> 0, tmp |-> 0, existed |-> FALSE,
     procs |-> [p \in Procs |-> NoHistory]]

\* what a path that names file number n holds
FileAt(h, n) == IF n = 0 THEN NoFile ELSE File(h.files[n])

\* a write of buf at offset 0 of a file that holds data
WriteAt0(buf, data) ==
    IF Len(data) > Len(buf) THEN buf \o SubSeq(data, Len(buf) + 1, Len(data)) ELSE buf

\* the processes find the file system as it is
HistFound ==
    /\ hist.pc = "unset"
    /\ \E file \in FoundFiles :
          hist' = IF file.exists
                  THEN [hist EXCEPT !.pc = "set", !.files = <<file.data>>, !.path = 1,
                                    !.existed = TRUE]
                  ELSE [hist EXCEPT !.pc = "set"]
    /\ UNCHANGED <<call, run, pull, tracker, chat, session, eval, install, compose>>

\* history.New
HistNew(p) ==
    /\ hist.pc = "set"
    /\ hist.procs[p].pc = "none"
    /\ \E readErr \in BOOLEAN :
          LET l == load(<<>>, FileAt(hist, hist.path), readErr)
          IN  hist' = [hist EXCEPT !.procs[p].history = l.history,
                                   !.procs[p].err = l.err,
                                   !.procs[p].pc = IF l.err = Nil THEN "ready" ELSE "failed"]
    /\ UNCHANGED <<call, run, pull, tracker, chat, session, eval, install, compose>>

\* History.Append up to the file system: the check for a newline, the push
\* and the trim; a process appends at most `most` times
HistAppendBegin(p, most) ==
    /\ hist.procs[p].pc = "ready"
    /\ hist.procs[p].appends < most
    /\ \E question \in HistoryLines :
          LET me == [hist.procs[p] EXCEPT
                        !.question = question, !.appends = @ + 1, !.err = Nil,
                        !.wrote = FALSE,
                        !.before = [history |-> hist.procs[p].history,
                                    file |-> FileAt(hist, hist.path)]]
              h == HistoryAppend(me.history, question)
          IN  hist' = IF ContainsNewline(question)
                      THEN [hist EXCEPT !.procs[p] = me]
                      ELSE [hist EXCEPT !.procs[p] =
                               [me EXCEPT !.history = h, !.buf = Join(h), !.pc = "mkdir"]]
    /\ UNCHANGED <<call, run, pull, tracker, chat, session, eval, install, compose>>

\* os.MkdirAll
HistMkdir(p) ==
    /\ hist.procs[p].pc = "mkdir"
    /\ \E failed \in BOOLEAN :
          hist' = IF failed
                  THEN [hist EXCEPT !.procs[p].pc = "ready",
                                    !.procs[p].err = Errorf("mkdir")]
                  ELSE [hist EXCEPT !.procs[p].pc = "create"]
    /\ UNCHANGED <<call, run, pull, tracker, chat, session, eval, install, compose>>

\* os.WriteFile, its open: the .tmp file is created, or truncated if it exists
HistCreateTmp(p) ==
    /\ hist.procs[p].pc = "create"
    /\ \E failed \in BOOLEAN :
          hist' = IF failed
                  THEN [hist EXCEPT !.procs[p].pc = "ready",
                                    !.procs[p].err = Errorf("open history.txt.tmp")]
                  ELSE IF hist.tmp = 0
                  THEN [hist EXCEPT !.procs[p].pc = "write",
                                    !.files = Append(@, <<>>),
                                    !.tmp = Len(hist.files) + 1,
                                    !.procs[p].fd = Len(hist.files) + 1]
                  ELSE [hist EXCEPT !.procs[p].pc = "write",
                                    !.files[hist.tmp] = <<>>,
                                    !.procs[p].fd = hist.tmp]
    /\ UNCHANGED <<call, run, pull, tracker, chat, session, eval, install, compose>>

\* os.WriteFile, its write and close: the bytes go to the file the process
\* opened, whatever path names it by now
HistWriteTmp(p) ==
    /\ hist.procs[p].pc = "write"
    /\ hist' = [hist EXCEPT !.procs[p].pc = "remove",
                            !.files[hist.procs[p].fd] = WriteAt0(hist.procs[p].buf, @),
                            !.procs[p].fd = 0]
    /\ UNCHANGED <<call, run, pull, tracker, chat, session, eval, install, compose>>

\* os.Remove of the history file, its error ignored
HistRemove(p) ==
    /\ hist.procs[p].pc = "remove"
    /\ hist' = [hist EXCEPT !.procs[p].pc = "rename", !.path = 0]
    /\ UNCHANGED <<call, run, pull, tracker, chat, session, eval, install, compose>>

\* os.Rename of the .tmp file to the history file
HistRename(p) ==
    /\ hist.procs[p].pc = "rename"
    /\ hist' = IF hist.tmp # 0
               THEN [hist EXCEPT !.procs[p].pc = "ready", !.procs[p].wrote = TRUE,
                                 !.path = hist.tmp, !.tmp = 0, !.existed = TRUE]
               ELSE [hist EXCEPT !.procs[p].pc = "ready",
                                 !.procs[p].err = Errorf("rename: no such file")]
    /\ UNCHANGED <<call, run, pull, tracker, chat, session, eval, install, compose>>

\* a step of process p
HistStep(p, most) ==
    HistNew(p) \/ HistAppendBegin(p, most) \/ HistMkdir(p) \/ HistCreateTmp(p)
        \/ HistWriteTmp(p) \/ HistRemove(p) \/ HistRename(p)

\* one process uses the history
HistoryNext == HistFound \/ HistStep(1, MaxAppends)

\* two processes use it at once, each for one Append
HistoryRaceNext == HistFound \/ \E p \in Procs : HistStep(p, 1)

----------------------------------------------------------------------------
(* The interactive chat loop of the run command (newRunCmd, prompt).       *)

\* the most prompts one interactive session shows
MaxPrompts == 3

\* the two delimiters of multi-line input
TripleDouble == <<"\"", "\"", "\"">>
TripleSingle == <<"'", "'", "'">>

\* the lines the slash-command switch compares the question with
SlashBye == <<"/", "b", "y", "e">>
SlashHelp == <<"/", "h", "e", "l", "p">>
SlashQuestion == <<"/", "?">>
SlashShortcuts == <<"/", "?", " ", "s", "h", "o", "r", "t", "c", "u", "t", "s">>
SlashCopy == <<"/", "c", "o", "p", "y">>

WhiteSpace == {" ", NL, "\t", "\r"}

\* strings.TrimSpace
TrimSpace(s) ==
    LET black == {i \in 1..Len(s) : s[i] \notin WhiteSpace}
    IN  IF black = {} THEN <<>>
        ELSE SubSeq(s, CHOOSE i \in black : \A j \in black : i <= j,
                       CHOOSE i \in black : \A j \in black : j <= i)

\* strings.HasSuffix
HasSuffix(s, p) == Len(s) >= Len(p) /\ SubSeq(s, Len(s) - Len(p) + 1, Len(s)) = p

\* strings.LastIndex, counted from 1; 0 when p does not occur
LastIndex(s, p) ==
    LET at == {i \in 1..(Len(s) - Len(p) + 1) : SubSeq(s, i, i + Len(p) - 1) = p}
    IN  IF at = {} THEN 0 ELSE CHOOSE i \in at : \A j \in at : j <= i

\* strings.TrimRight(s, "\n")
RECURSIVE TrimRightNewlines(_)
TrimRightNewlines(s) ==
    IF Len(s) > 0 /\ s[Len(s)] = NL THEN TrimRightNewlines(SubSeq(s, 1, Len(s) - 1))
    ELSE s

\* the errors of the loop's reads
EOF == <<"EOF">>
Canceled == <<"context canceled">>
ErrUnexpectedEOF == <<"unexpected EOF">>

\* readLine on the unread bytes r, with the context done or not: the bytes
\* up to and with the first newline, or what is left before the end of the
\* input; the end of the input itself is an error
readLine(r, ctxDone) ==
    LET nls == {i \in 1..Len(r) : r[i] = NL}
        n == IF nls = {} THEN Len(r) ELSE CHOOSE i \in nls : \A j \in nls : i <= j
    IN  IF ctxDone THEN [line |-> <<>>, rest |-> r, err |-> Canceled]
        ELSE IF r = <<>> THEN [line |-> <<>>, rest |-> r, err |-> EOF]
        ELSE [line |-> SubSeq(r, 1, n), rest |-> SubSeq(r, n + 1, Len(r)), err |-> Nil]

\* the mutant of ReadLines that takes the end of the input for the closing
\* delimiter
ReadLinesClosedByEOF(r, prefix, question, alive) ==
    LET nls == {i \in 1..Len(r) : r[i] = NL}
        ends == {i \in nls : HasSuffix(TrimSpace(SubSeq(r, 1, i)), prefix)}
    IN  IF alive = 0 THEN [question |-> <<>>, err |-> Canceled]
        ELSE IF ends = {} THEN [question |-> question \o r, err |-> Nil]
        ELSE [question |->
                question \o SubSeq(r, 1, CHOOSE i \in ends : \A j \in ends : i <= j),
              err |-> Nil]

\* the loop of readMultilineString: lines are added to question until one
\* ends, trimmed, with the prefix; alive is the number of lines read before
\* the context is done (-1: it never is)
RECURSIVE ReadLines(_, _, _, _)
ReadLines(r, prefix, question, alive) ==
    LET l == readLine(r, alive = 0)
        q == question \o l.line
        t == TrimSpace(l.line)
    IN  IF l.err # Nil
        THEN [question |-> <<>>,
              err |-> IF ErrorsIs(l.err, EOF) THEN Wrap("unclosed multiline input", l.err)
                      ELSE l.err]
        ELSE IF t = prefix \/ HasSuffix(t, prefix) THEN [question |-> q, err |-> Nil]
        ELSE ReadLines(l.rest, prefix, q, IF alive > 0 THEN alive - 1 ELSE alive)

\* strings.Index, counted from 1; 0 when p does not occur
Index(s, p) ==
    LET at == {i \in 1..(Len(s) - Len(p) + 1) : SubSeq(s, i, i + Len(p) - 1) = p}
    IN  IF at = {} THEN 0 ELSE CHOOSE i \in at : \A j \in at : i <= j

\* the mutant of readMultilineString that removes the first delimiter of
\* the text read
readMultilineStringCutsFirst(stdin, initialText, alive) ==
    LET r == initialText \o stdin
        prefix == SubSeq(r, 1, 3)
        read == ReadLines(SubSeq(r, 4, Len(r)), prefix, <<>>, alive)
        content == read.question
        idx == Index(content, prefix)
        cut == IF idx >= 1
               THEN SubSeq(content, 1, idx - 1)
                        \o SubSeq(content, idx + Len(prefix), Len(content))
               ELSE content
    IN  IF Len(r) < 3
        THEN [text |-> <<>>, err |-> IF r = <<>> THEN EOF ELSE ErrUnexpectedEOF]
        ELSE IF prefix # TripleDouble /\ prefix # TripleSingle
        THEN [text |-> <<>>, err |-> Errorf("invalid multiline string prefix")]
        ELSE IF read.err # Nil THEN [text |-> <<>>, err |-> read.err]
        ELSE [text |-> TrimRightNewlines(cut), err |-> Nil]

\* the mutant of readMultilineString that reads the initial text without
\* the newline at its end
readMultilineStringJoinsFirstLine(stdin, initialText, alive) ==
    LET r == TrimRightNewlines(initialText) \o stdin
        prefix == SubSeq(r, 1, 3)
        read == ReadLines(SubSeq(r, 4, Len(r)), prefix, <<>>, alive)
        content == read.question
        idx == LastIndex(content, prefix)
        cut == IF idx >= 1
               THEN SubSeq(content, 1, idx - 1)
                        \o SubSeq(content, idx + Len(prefix), Len(content))
               ELSE content
    IN  IF Len(r) < 3
        THEN [text |-> <<>>, err |-> IF r = <<>> THEN EOF ELSE ErrUnexpectedEOF]
        ELSE IF prefix # TripleDouble /\ prefix # TripleSingle
        THEN [text |-> <<>>, err |-> Errorf("invalid multiline string prefix")]
        ELSE IF read.err # Nil THEN [text |-> <<>>, err |-> read.err]
        ELSE [text |-> TrimRightNewlines(cut), err |-> Nil]

\* readMultilineString: the text between the delimiters, read from the
\* initial text and then from the standard input
readMultilineString(stdin, initialText, alive) ==
    LET r == initialText \o stdin
        prefix == SubSeq(r, 1, 3)
        read == ReadLines(SubSeq(r, 4, Len(r)), prefix, <<>>, alive)
        content == read.question
        idx == LastIndex(content, prefix)
        cut == IF idx >= 1
               THEN SubSeq(content, 1, idx - 1)
                        \o SubSeq(content, idx + Len(prefix), Len(content))
               ELSE content
    IN  IF Len(r) < 3
        THEN [text |-> <<>>, err |-> IF r = <<>> THEN EOF ELSE ErrUnexpectedEOF]
        ELSE IF prefix # TripleDouble /\ prefix # TripleSingle
        THEN [text |-> <<>>, err |-> Errorf("invalid multiline string prefix")]
        ELSE IF read.err # Nil THEN [text |-> <<>>, err |-> read.err]
        ELSE [text |-> TrimRightNewlines(cut), err |-> Nil]

\* the mutant of Previous that steps below the first entry
PreviousBelowFirst(history, text, cursorPosition, historyIndex) ==
    LET i == IF historyIndex = -1 /\ Len(history) > 0 THEN Len(history) ELSE historyIndex
    IN  IF i > 0 /\ Len(history) > 0
        THEN [text |-> history[i], historyIndex |-> i - 1, position |-> Len(history[i])]
        ELSE [text |-> text, historyIndex |-> i - 1, position |-> cursorPosition]

\* History.Previous
Previous(history, text, cursorPosition, historyIndex) ==
    LET i == IF historyIndex = -1 /\ Len(history) > 0 THEN Len(history) ELSE historyIndex
    IN  IF i > 0 /\ Len(history) > 0
        THEN [text |-> history[i], historyIndex |-> i - 1, position |-> Len(history[i])]
        ELSE [text |-> text, historyIndex |-> i, position |-> cursorPosition]

\* History.Next
NextEntry(history, text, cursorPosition, historyIndex) ==
    IF historyIndex < Len(history) - 1 /\ historyIndex >= 0
    THEN [text |-> history[historyIndex + 2], historyIndex |-> historyIndex + 1,
          position |-> Len(history[historyIndex + 2])]
    ELSE [text |-> text, historyIndex |-> historyIndex, position |-> cursorPosition]

\* a key message: its type and, for typed text, the runes
Key(type, runes) == [type |-> type, runes |-> runes]

\* promptModel: the editor of a new prompt
promptModel == [text |-> <<>>, position |-> 0, historyIndex |-> -1, quit |-> FALSE]

\* the mutant of Update where Ctrl-D submits the input as Enter does
UpdateCtrlDSubmits(p, history, msg) ==
    IF msg.type = "enter" \/ msg.type = "ctrl+d" THEN [p EXCEPT !.quit = TRUE]
    ELSE IF msg.type = "ctrl+c"
    THEN [p EXCEPT !.text = SlashBye, !.position = Len(SlashBye), !.quit = TRUE]
    ELSE IF msg.type = "esc"
    THEN [p EXCEPT !.text = <<>>, !.position = 0, !.quit = TRUE]
    ELSE IF msg.type = "up"
    THEN LET r == Previous(history, p.text, p.position, p.historyIndex)
         IN  [p EXCEPT !.text = r.text, !.historyIndex = r.historyIndex,
                       !.position = r.position]
    ELSE IF msg.type = "down"
    THEN LET r == NextEntry(history, p.text, p.position, p.historyIndex)
         IN  [p EXCEPT !.text = r.text, !.historyIndex = r.historyIndex,
                       !.position = r.position]
    ELSE [p EXCEPT !.text = SubSeq(p.text, 1, p.position) \o msg.runes
                                \o SubSeq(p.text, p.position + 1, Len(p.text)),
                   !.position = p.position + Len(msg.runes)]

\* prompt.Update on a key: Enter submits the input; Ctrl-C and Ctrl-D set it
\* to "/bye" and Esc to "" before they submit; Up and Down walk the history;
\* any other key goes to the text input, which inserts the runes at the cursor
Update(p, history, msg) ==
    IF msg.type = "enter" THEN [p EXCEPT !.quit = TRUE]
    ELSE IF msg.type = "ctrl+c" \/ msg.type = "ctrl+d"
    THEN [p EXCEPT !.text = SlashBye, !.position = Len(SlashBye), !.quit = TRUE]
    ELSE IF msg.type = "esc"
    THEN [p EXCEPT !.text = <<>>, !.position = 0, !.quit = TRUE]
    ELSE IF msg.type = "up"
    THEN LET r == Previous(history, p.text, p.position, p.historyIndex)
         IN  [p EXCEPT !.text = r.text, !.historyIndex = r.historyIndex,
                       !.position = r.position]
    ELSE IF msg.type = "down"
    THEN LET r == NextEntry(history, p.text, p.position, p.historyIndex)
         IN  [p EXCEPT !.text = r.text, !.historyIndex = r.historyIndex,
                       !.position = r.position]
    ELSE [p EXCEPT !.text = SubSeq(p.text, 1, p.position) \o msg.runes
                                \o SubSeq(p.text, p.position + 1, Len(p.text)),
                   !.position = p.position + Len(msg.runes)]

\* the case the switch of the loop takes for a question, in its order
Switch(question) ==
    IF question = SlashBye THEN "bye"
    ELSE IF TrimSpace(question) = <<>> THEN "blank"
    ELSE IF question = SlashHelp \/ question = SlashQuestion THEN "help"
    ELSE IF question = SlashShortcuts THEN "shortcuts"
    ELSE IF question = SlashCopy THEN "copy"
    ELSE IF HasPrefix(question, <<"/">>) THEN "unknown"
    ELSE IF HasPrefix(question, TripleDouble) \/ HasPrefix(question, TripleSingle)
    THEN "multiline"
    ELSE "default"

\* History.Append with its file: a line with a newline is dropped; else the
\* history in memory takes it and the file is rewritten through the .tmp
\* file, a step of which may fail (fail: "none", "mkdir", "write", "rename")
HistoryAppendFile(history, file, question, fail) ==
    LET h == HistoryAppend(history, question)
    IN  IF ContainsNewline(question) THEN [history |-> history, file |-> file, err |-> Nil]
        ELSE IF fail = "mkdir" \/ fail = "write"
        THEN [history |-> h, file |-> file, err |-> Errorf(fail)]
        ELSE IF fail = "rename" THEN [history |-> h, file |-> NoFile, err |-> Errorf(fail)]
        ELSE [history |-> h, file |-> File(Join(h)), err |-> Nil]

\* the chunks Chat hands back: the content fragments it wrote
Captured(out) ==
    LET content == SelectSeq(out, LAMBDA o : o.t = "content")
    IN  [i \in 1..Len(content) |-> content[i].s]

\* the session before the interactive loop; of the last question submitted,
\* before is the state it was submitted in, key the key that submitted it,
\* entered the input that key found, did the case it took, multi whether it
\* went through the multi-line capture
SessionIdle ==
    [pc |-> "idle", history |-> <<>>, file |-> NoFile, lastResp |-> <<>>,
     lastCommand |-> <<>>, placeholder |-> FALSE, prompt |-> promptModel,
     prompts |-> 0, key |-> "none", entered |-> <<>>,
     question |-> <<>>, multi |-> FALSE, stdin |-> <<>>, payload |-> <<>>, sent |-> <<>>, copied |-> "",
     did |-> "none", chatErr |-> Nil, err |-> Nil, stderr |-> <<>>,
     before |-> [history |-> <<>>, file |-> NoFile, lastResp |-> <<>>, sent |-> <<>>]]

\* the top of the loop: a new prompt, with the placeholder before the first
\* chat turn
StartPrompt(s) ==
    [s EXCEPT !.pc = "edit", !.prompt = promptModel, !.prompts = @ + 1,
              !.placeholder = (s.lastCommand = <<>>)]

\* the loop returns
Return(s, err) == [s EXCEPT !.pc = "done", !.err = err]

\* strings.Join(lastResp, "")
RECURSIVE JoinChunks(_)
JoinChunks(chunks) ==
    IF chunks = <<>> THEN "" ELSE Head(chunks) \o JoinChunks(Tail(chunks))

\* the cases of the switch that are no chat turn
Command(s) ==
    LET c == Switch(s.question)
        t == [s EXCEPT !.did = c]
    IN  IF c = "bye" THEN Return(t, Nil)
        ELSE IF c = "copy" /\ Len(s.lastResp) = 0
        THEN StartPrompt([t EXCEPT !.did = "nothing to copy"])
        ELSE IF c = "copy" THEN StartPrompt([t EXCEPT !.copied = JoinChunks(s.lastResp)])
        ELSE StartPrompt(t)

\* the model the session chats with and the answers it gets
SessionModel == <<"a", "i", "/", "s">>
SessionBodies ==
    {<<ChatLineOf("chunk", 1, "", "c1"), ChatLineOf("done", 0, "", "")>>,
     <<ChatLineOf("chunk", 1, "r1", "c2"), ChatLineOf("chunk", 1, "", "c1")>>,
     <<ChatLineOf("chunk", 1, "", "c1"), ChatLineOf("garbage", 0, "", "")>>}

\* the mutant of ChatTurn that appends the question of a failed turn too
ChatTurnAppendsAlways(s, code, body, partial, fail) ==
    LET st == ChatBody(ChatRequest(SessionModel, Answer(StatusOK, TRUE, <<>>), code), body)
        resp == IF st.err = Nil \/ partial THEN Captured(st.out) ELSE <<>>
        a == HistoryAppendFile(s.history, s.file, s.question, fail)
        t == [s EXCEPT !.lastResp = resp, !.sent = Append(@, s.question),
                       !.chatErr = st.err, !.did = "chat",
                       !.history = a.history, !.file = a.file]
    IN  IF st.err # Nil THEN Return([t EXCEPT !.stderr = Append(@, st.err)], Nil)
        ELSE IF a.err # Nil THEN Return(t, Wrap("unable to update history", a.err))
        ELSE StartPrompt([t EXCEPT !.lastCommand = s.question])

\* the mutant of ChatTurn that appends the line of the editor to the history
ChatTurnAppendsRawLine(s, code, body, partial, fail) ==
    LET st == ChatBody(ChatRequest(SessionModel, Answer(StatusOK, TRUE, <<>>), code), body)
        resp == IF st.err = Nil \/ partial THEN Captured(st.out) ELSE <<>>
        t == [s EXCEPT !.lastResp = resp, !.sent = Append(@, s.question),
                       !.chatErr = st.err, !.did = "chat"]
        a == HistoryAppendFile(s.history, s.file, s.prompt.text, fail)
        u == [t EXCEPT !.history = a.history, !.file = a.file]
    IN  IF st.err # Nil THEN Return([t EXCEPT !.stderr = Append(@, st.err)], Nil)
        ELSE IF a.err # Nil THEN Return(u, Wrap("unable to update history", a.err))
        ELSE StartPrompt([u EXCEPT !.lastCommand = s.question])

\* the mutant of ChatTurn that prints the error of a failed turn and prompts
\* again
ChatTurnPromptsAgain(s, code, body, partial, fail) ==
    LET st == ChatBody(ChatRequest(SessionModel, Answer(StatusOK, TRUE, <<>>), code), body)
        resp == IF st.err = Nil \/ partial THEN Captured(st.out) ELSE <<>>
        t == [s EXCEPT !.lastResp = resp, !.sent = Append(@, s.question),
                       !.chatErr = st.err, !.did = "chat"]
        a == HistoryAppendFile(s.history, s.file, s.question, fail)
        u == [t EXCEPT !.history = a.history, !.file = a.file]
    IN  IF st.err # Nil THEN StartPrompt([t EXCEPT !.stderr = Append(@, st.err)])
        ELSE IF a.err # Nil THEN Return(u, Wrap("unable to update history", a.err))
        ELSE StartPrompt([u EXCEPT !.lastCommand = s.question])

\* the default case: the question is sent to Chat, whose chunks become the
\* last response whether it failed or not (partial: a failed Chat hands back
\* what it had captured); a failed turn prints the error to the standard
\* error (stderr: the errors handed to handleClientError and printed) and
\* ends the loop, a good one appends the question to the history
ChatTurn(s, code, body, partial, fail) ==
    LET st == ChatBody(ChatRequest(SessionModel, Answer(StatusOK, TRUE, <<>>), code), body)
        resp == IF st.err = Nil \/ partial THEN Captured(st.out) ELSE <<>>
        t == [s EXCEPT !.lastResp = resp, !.sent = Append(@, s.question),
                       !.chatErr = st.err, !.did = "chat"]
        a == HistoryAppendFile(s.history, s.file, s.question, fail)
        u == [t EXCEPT !.history = a.history, !.file = a.file]
    IN  IF st.err # Nil THEN Return([t EXCEPT !.stderr = Append(@, st.err)], Nil)
        ELSE IF a.err # Nil THEN Return(u, Wrap("unable to update history", a.err))
        ELSE StartPrompt([u EXCEPT !.lastCommand = s.question])

\* what the user types at a prompt, the keys, and what the standard input
\* holds when a multi-line capture reads it
SessionTyped ==
    {SlashBye, SlashHelp, SlashQuestion, SlashShortcuts, SlashCopy, <<"/", "x">>,
     <<" ">>, <<"h", "i">>, TripleDouble \o <<"h", "i">> \o TripleDouble,
     TripleDouble \o <<"a">>, TripleSingle}
Keys ==
    {Key(t, <<>>) : t \in {"enter", "ctrl+c", "ctrl+d", "esc", "up", "down"}}
        \cup {Key("runes", r) : r \in SessionTyped}
SessionStdin ==
    {<<>>, <<"b", NL>>, TripleDouble, <<"b", NL>> \o TripleDouble \o <<NL>>,
     <<"b">> \o TripleSingle \o <<NL>>}
SessionFiles == {NoFile, File(<<"a", NL, "b">>)}

\* history.New, and the first prompt
SessionBegin ==
    /\ session.pc = "idle"
    /\ \E file \in SessionFiles, readErr \in BOOLEAN :
        LET l == load(<<>>, file, readErr)
            s == [session EXCEPT !.history = l.history, !.file = file,
                                 !.before.history = l.history, !.before.file = file]
        IN  session' = IF l.err # Nil
                       THEN Return(s, Wrap("unable to initialize history", l.err))
                       ELSE StartPrompt(s)
    /\ UNCHANGED <<call, run, pull, tracker, chat, hist, eval, install, compose>>

\* a key at the prompt (a line is typed into the empty input); the key that
\* quits the editor submits its text
SessionKey ==
    /\ session.pc = "edit"
    /\ session.prompts <= MaxPrompts
    /\ \E msg \in Keys :
        /\ msg.type = "runes" => session.prompt.text = <<>>
        /\ LET p == Update(session.prompt, session.history, msg)
               s == [session EXCEPT !.prompt = p]
           IN  session' =
                 IF p.quit
                 THEN [s EXCEPT !.pc = "submitted", !.question = p.text,
                                !.key = msg.type,
                                !.entered = session.prompt.text,
                                !.multi = FALSE, !.stdin = <<>>, !.payload = <<>>,
                                !.did = "none", !.chatErr = Nil,
                                !.before = [history |-> session.history,
                                            file |-> session.file,
                                            lastResp |-> session.lastResp,
                                            sent |-> session.sent]]
                 ELSE s
    /\ UNCHANGED <<call, run, pull, tracker, chat, hist, eval, install, compose>>

\* the terminal program of the prompt fails
SessionRunFails ==
    /\ session.pc = "edit"
    /\ session.prompts <= MaxPrompts
    /\ session' = Return([session EXCEPT !.key = "none", !.did = "none",
                                         !.before = [history |-> session.history,
                                                     file |-> session.file,
                                                     lastResp |-> session.lastResp,
                                                     sent |-> session.sent]],
                         Errorf("program was killed"))
    /\ UNCHANGED <<call, run, pull, tracker, chat, hist, eval, install, compose>>

\* the question is a slash command or blank
SessionCommand ==
    /\ session.pc = "submitted"
    /\ Switch(session.question) \notin {"multiline", "default"}
    /\ session' = Command(session)
    /\ UNCHANGED <<call, run, pull, tracker, chat, hist, eval, install, compose>>

\* the question opens a multi-line input: the rest is read from the
\* standard input and the text between the delimiters becomes the question
SessionCapture ==
    /\ session.pc = "submitted"
    /\ Switch(session.question) = "multiline"
    /\ \E stdin \in SessionStdin, alive \in {-1, 0, 1} :
        LET r == readMultilineString(stdin, session.question \o <<NL>>, alive)
            s == [session EXCEPT !.multi = TRUE, !.stdin = stdin, !.did = "multiline"]
        IN  session' = IF r.err # Nil THEN Return(s, r.err)
                       ELSE [s EXCEPT !.pc = "captured", !.question = r.text,
                                      !.payload = r.text]
    /\ UNCHANGED <<call, run, pull, tracker, chat, hist, eval, install, compose>>

\* the chat turn of a plain question or of a captured one
SessionChat ==
    /\ \/ session.pc = "captured"
       \/ session.pc = "submitted" /\ Switch(session.question) = "default"
    /\ \E code \in {StatusOK, 503}, body \in SessionBodies, partial \in BOOLEAN,
          fail \in {"none", "mkdir", "write", "rename"} :
            session' = ChatTurn(session, code, body, partial, fail)
    /\ UNCHANGED <<call, run, pull, tracker, chat, hist, eval, install, compose>>

SessionNext ==
    SessionBegin \/ SessionKey \/ SessionRunFails \/ SessionCommand
        \/ SessionCapture \/ SessionChat

----------------------------------------------------------------------------
(* The functions of the prompt taken alone.                                *)

\* no function has been applied yet
EvalIdle == [op |-> "none"]

\* the histories, texts and cursors Previous and Next are applied to
NavEntries == {<<"a">>, <<"b", "c">>, <<>>}
NavHistories == SeqsUpTo(NavEntries, MaxHistoryLength)
NavTexts == {<<>>, <<"x", "y">>}

\* Previous or Next applied to a history, a text, a cursor in the text and
\* an index that is -1 or names an entry
Navigated(op, history, text, cursor, index) ==
    [op |-> op, history |-> history, text |-> text, cursor |-> cursor, index |-> index,
     out |-> IF op = "Previous" THEN Previous(history, text, cursor, index)
             ELSE NextEntry(history, text, cursor, index)]

EvalPrevious ==
    /\ eval = EvalIdle
    /\ \E history \in NavHistories, text \in NavTexts :
        \E cursor \in 0..Len(text), index \in -1..(Len(history) - 1) :
            eval' = Navigated("Previous", history, text, cursor, index)
    /\ UNCHANGED <<call, run, pull, tracker, chat, hist, session, install, compose>>

EvalNext ==
    /\ eval = EvalIdle
    /\ \E history \in NavHistories, text \in NavTexts :
        \E cursor \in 0..Len(text), index \in -1..(Len(history) - 1) :
            eval' = Navigated("Next", history, text, cursor, index)
    /\ UNCHANGED <<call, run, pull, tracker, chat, hist, session, install, compose>>

NavigateNext == EvalPrevious \/ EvalNext

\* the most pieces an input of readMultilineString is made of
MaxPieces == 4

\* the pieces, and the inputs made of them
Pieces == {TripleDouble, TripleSingle, <<"\"">>, <<"a">>, <<" ">>, <<NL>>}

RECURSIVE Flatten(_)
Flatten(pieces) == IF pieces = <<>> THEN <<>> ELSE Head(pieces) \o Flatten(Tail(pieces))

MultilineInputs == {Flatten(ps) : ps \in SeqsUpTo(Pieces, MaxPieces)}

\* the first line of an input, with its newline
FirstLine(input) == readLine(input, FALSE).line

\* readMultilineString applied to an input, all of it behind the reader
\* or its first line handed over as the initial text (chunked), with the
\* context done after alive lines
EvalReadMultilineString ==
    /\ eval = EvalIdle
    /\ \E input \in MultilineInputs, chunked \in BOOLEAN, alive \in {-1, 0, 1} :
        LET initialText == IF chunked THEN FirstLine(input) ELSE <<>>
            r == SubSeq(input, Len(initialText) + 1, Len(input))
        IN  eval' = [op |-> "readMultilineString", input |-> input, chunked |-> chunked,
                     alive |-> alive, out |-> readMultilineString(r, initialText, alive)]
    /\ UNCHANGED <<call, run, pull, tracker, chat, hist, session, install, compose>>

\* readMultilineString applied twice to one input: all of it behind the
\* reader, and its first line handed over as the initial text
EvalDelivery ==
    /\ eval = EvalIdle
    /\ \E input \in MultilineInputs, alive \in {-1, 0, 1} :
        LET firstLine == FirstLine(input)
            rest == SubSeq(input, Len(firstLine) + 1, Len(input))
        IN  eval' = [op |-> "delivery", input |-> input, alive |-> alive,
                     firstLine |-> firstLine,
                     whole |-> readMultilineString(input, <<>>, alive),
                     chunked |-> readMultilineString(rest, firstLine, alive)]
    /\ UNCHANGED <<call, run, pull, tracker, chat, hist, session, install, compose>>

MultilineNext == EvalReadMultilineString \/ EvalDelivery

----------------------------------------------------------------------------
(* readLine step by step: the goroutine that reads and the select.         *)

\* the longest input readLine is called on
MaxInput == 3

ReadLineInputs == SeqsUpTo({"a", NL}, MaxInput)

\* readLine is called on the unread bytes r, the context done already or
\* not: the two channels are made and the goroutine is started
ReadLineCall ==
    /\ eval = EvalIdle
    /\ \E r \in ReadLineInputs, done \in BOOLEAN :
        eval' = [op |-> "readLine", r |-> r, ctxDone |-> done,
                 main |-> "select", goroutine |-> "read", closed |-> FALSE,
                 read |-> [line |-> <<>>, err |-> Nil],
                 ret |-> [line |-> <<>>, err |-> Nil], from |-> "none"]
    /\ UNCHANGED <<call, run, pull, tracker, chat, hist, session, install, compose>>

\* the context is cancelled
ReadLineCancel ==
    /\ eval.op = "readLine" /\ ~eval.ctxDone
    /\ eval' = [eval EXCEPT !.ctxDone = TRUE]
    /\ UNCHANGED <<call, run, pull, tracker, chat, hist, session, install, compose>>

\* r.ReadString returns in the goroutine, which comes to its send on errs
\* (an error and no byte read) or on lines
ReadLineRead ==
    /\ eval.op = "readLine" /\ eval.goroutine = "read"
    /\ LET got == readLine(eval.r, FALSE)
       IN  eval' = [eval EXCEPT
              !.read = [line |-> got.line, err |-> got.err],
              !.goroutine = IF got.err # Nil /\ got.line = <<>> THEN "send errs"
                            ELSE "send lines"]
    /\ UNCHANGED <<call, run, pull, tracker, chat, hist, session, install, compose>>

\* the select of readLine takes the case of the context
ReadLineDone ==
    /\ eval.op = "readLine" /\ eval.main = "select" /\ eval.ctxDone
    /\ eval' = [eval EXCEPT !.main = "returned", !.from = "ctx",
                            !.ret = [line |-> <<>>, err |-> Canceled]]
    /\ UNCHANGED <<call, run, pull, tracker, chat, hist, session, install, compose>>

\* the channels have no buffer: the send of the goroutine and the receive
\* of the select happen together, and the deferred closes come next
ReadLineReceive ==
    /\ eval.op = "readLine" /\ eval.main = "select"
    /\ eval.goroutine \in {"send errs", "send lines"}
    /\ eval' = [eval EXCEPT
          !.main = "returned", !.from = eval.goroutine, !.goroutine = "close",
          !.ret = IF eval.goroutine = "send errs"
                  THEN [line |-> <<>>, err |-> eval.read.err]
                  ELSE [line |-> eval.read.line, err |-> Nil]]
    /\ UNCHANGED <<call, run, pull, tracker, chat, hist, session, install, compose>>

\* the goroutine closes errs and lines and ends
ReadLineClose ==
    /\ eval.op = "readLine" /\ eval.goroutine = "close"
    /\ eval' = [eval EXCEPT !.goroutine = "ended", !.closed = TRUE]
    /\ UNCHANGED <<call, run, pull, tracker, chat, hist, session, install, compose>>

ReadLineNext ==
    \/ ReadLineCall
    \/ ReadLineCancel
    \/ ReadLineRead
    \/ ReadLineDone
    \/ ReadLineReceive
    \/ ReadLineClose

----------------------------------------------------------------------------
(* The standalone installer (package standalone).                          *)

\* controllerContainerName
controllerContainerName == "docker-model-runner"

\* the labels of a controller container
labelDesktopService == "com.docker.desktop.extension.api.service"
serviceModelRunner == "model-runner"
labelRole == "com.docker.desktop.extension.api.role"
roleController == "controller"

\* the inspections waitForContainerToStart makes at most
Polls == 10

\* strconv.Itoa of a port, as the text the configuration carries
PortStr(port) == ToString(port)

\* the answer of the engine to the inspection of the bridge network: an
\* error, or the gateways of its IPAM configurations
NetworkAnswer(failed, gateways) == [failed |-> failed, gateways |-> gateways]

\* determineBridgeGatewayIP: the first gateway that is not empty
determineBridgeGatewayIP(bridge) ==
    LET set == {i \in 1..Len(bridge.gateways) : bridge.gateways[i] # ""}
    IN  IF bridge.failed THEN [ip |-> "", err |-> Errorf("network inspect")]
        ELSE IF set = {} THEN [ip |-> "", err |-> Nil]
        ELSE [ip |-> bridge.gateways[CHOOSE i \in set : \A j \in set : i <= j],
              err |-> Nil]

PortBinding(ip, port) == [HostIP |-> ip, HostPort |-> PortStr(port)]

\* the mutant of PortBindings that binds the gateway whatever the override
PortBindingsIgnoreOverride(port, treatAsMoby, bridge) ==
    LET g == determineBridgeGatewayIP(bridge)
    IN  <<PortBinding("127.0.0.1", port)>>
            \o (IF g.err = Nil /\ g.ip # "" THEN <<PortBinding(g.ip, port)>> ELSE <<>>)

\* the port bindings CreateControllerContainer publishes the port with;
\* treatAsMoby is the value of _MODEL_RUNNER_TREAT_DESKTOP_AS_MOBY
PortBindings(port, treatAsMoby, bridge) ==
    LET g == determineBridgeGatewayIP(bridge)
    IN  <<PortBinding("127.0.0.1", port)>>
            \o (IF treatAsMoby # "1" /\ g.err = Nil /\ g.ip # ""
                THEN <<PortBinding(g.ip, port)>> ELSE <<>>)

\* the configuration CreateControllerContainer hands to ContainerCreate
ControllerConfig(port, environment, doNotTrack, gpu, treatAsMoby, bridge) ==
    [name |-> controllerContainerName,
     image |-> IF gpu = "cuda" THEN "cuda" ELSE "cpu",
     env |-> <<"MODEL_RUNNER_PORT=" \o PortStr(port),
               "MODEL_RUNNER_ENVIRONMENT=" \o environment>>
                \o (IF doNotTrack THEN <<"DO_NOT_TRACK=1">> ELSE <<>>),
     exposed |-> {PortStr(port) \o "/tcp"},
     labels |-> {<<labelDesktopService, serviceModelRunner>>, <<labelRole, roleController>>},
     restart |-> "always",
     bound |-> PortStr(port) \o "/tcp",
     bindings |-> PortBindings(port, treatAsMoby, bridge),
     runtime |-> IF gpu = "cuda" THEN "nvidia" ELSE ""]

\* container ids: one of six characters, one of twelve, and one the
\* conflict pattern does not match
IDShort == <<"a", "b", "c", "1", "2", "3">>
IDLong == <<"0", "1", "2", "3", "4", "5", "6", "7", "8", "9", "a", "b">>
IDOdd == <<"A", "b", "c", "1", "2", "3", "4", "5", "6", "7", "8", "9">>
EngineIDs == {IDShort, IDLong}
ForeignIDs == {IDShort, IDLong, IDOdd}

\* the characters of [a-z0-9] that the ids use
LowerAlnum == {"a", "b", "c", "0", "1", "2", "3", "4", "5", "6", "7", "8", "9"}

\* the errors of the engine: the name conflict, whose message reads
\* `... is already in use by container "<id>" ...`, a missing container,
\* and any other failure
Conflict(id) == [kind |-> "conflict", id |-> id]
NoSuchContainer == [kind |-> "No such container", id |-> <<>>]
EngineFailure == [kind |-> "failure", id |-> <<>>]
NoError == [kind |-> "none", id |-> <<>>]

\* concurrentInstallMatcher.FindStringSubmatch on the message of an error:
\* the id between the quotes when it is made of [a-z0-9]+, else no match
concurrentInstallMatcher(err) ==
    IF err.kind = "conflict" /\ err.id # <<>>
            /\ \A i \in 1..Len(err.id) : err.id[i] \in LowerAlnum
    THEN [matched |-> TRUE, id |-> err.id]
    ELSE [matched |-> FALSE, id |-> <<>>]

\* a container of the engine; a registered container holds its name but is
\* not yet seen by an inspection; owner 0 is an installer outside the model
Container(id, state, owner, config) ==
    [id |-> id, name |-> controllerContainerName, state |-> state, owner |-> owner,
     config |-> config]

\* the containers that hold the controller name
Holders(ctrs) == {c \in ctrs : c.name = controllerContainerName}

\* ContainerInspect as the engine answers it
ContainerInspect(ctrs, id, failed) ==
    LET found == {c \in ctrs : c.id = id /\ c.state # "registered"}
    IN  IF failed THEN [state |-> "", err |-> EngineFailure]
        ELSE IF found = {} THEN [state |-> "", err |-> NoSuchContainer]
        ELSE [state |-> (CHOOSE c \in found : TRUE).state, err |-> NoError]

\* an installer before CreateControllerContainer; i is the loop variable of
\* waitForContainerToStart, last the answer to its last inspection, decided
\* the event that ended the wait, calls the engine calls made after the
\* configuration was built, treatAsMoby and bridge what it was built from,
\* startFailed the outcome of ContainerStart, target the container that
\* ContainerRemove was called for
NoInstaller ==
    [pc |-> "idle", treatAsMoby |-> "", bridge |-> NetworkAnswer(FALSE, <<>>),
     config |-> <<>>, resp |-> <<>>, createErr |-> NoError, last |-> "none",
     waitFor |-> <<>>, i |-> 0, inspections |-> 0, waits |-> 0, decided |-> "none",
     ctxDone |-> FALSE, calls |-> <<>>, startFailed |-> FALSE, target |-> <<>>,
     waitErr |-> Nil, ret |-> "none", err |-> Nil]

\* FindControllerContainer before it is called: containers is the list its
\* prune works on, removed the containers the prune removed with the state
\* they were in, listed the list it chooses from
NoFinder ==
    [pc |-> "idle", containers |-> <<>>, k |-> 0, removed |-> {}, listed |-> <<>>,
     calls |-> <<>>, panicked |-> FALSE,
     ret |-> [id |-> <<>>, name |-> "", summary |-> <<>>, err |-> Nil]]

\* the engine with no container, and the installers
InstallIdle ==
    [ctrs |-> {}, used |-> {}, accepted |-> <<>>,
     procs |-> [p \in Procs |-> NoInstaller], finder |-> NoFinder]

\* CreateControllerContainer returns
Returned(st, err) ==
    [st EXCEPT !.pc = "done", !.ret = IF err = Nil THEN "nil" ELSE "error", !.err = err]

\* waitForContainerToStart returns to CreateControllerContainer
Waited(st, decided, err) ==
    Returned([st EXCEPT !.decided = decided, !.waitErr = err],
             IF err = Nil THEN Nil
             ELSE Wrap("failed waiting for concurrent installation", err))

\* the end of a turn of the loop that did not return: a wait while i > 1,
\* else the loop is over
Polled(st) ==
    IF st.i > 1 THEN [st EXCEPT !.pc = "sleep", !.waits = @ + 1]
    ELSE Waited([st EXCEPT !.i = 0], "timeout", Errorf("timed out"))

\* one turn of the loop of waitForContainerToStart, from the answer to its
\* inspection; the error of a failed inspection is reported with the first
\* 12 bytes of the id, which a shorter id does not have
Inspected(st, answer) ==
    LET s == [st EXCEPT !.inspections = @ + 1,
                        !.last = IF answer.err # NoError THEN answer.err.kind
                                 ELSE answer.state]
    IN  IF answer.err # NoError
        THEN IF answer.err.kind # "No such container"
             THEN IF Len(st.waitFor) < 12
                  THEN [s EXCEPT !.pc = "done", !.ret = "panic", !.decided = "panic"]
                  ELSE Waited(s, "inspect error", Errorf("unable to inspect container"))
             ELSE Polled(s)
        ELSE IF answer.state = "running" THEN Waited(s, "running", Nil)
        ELSE IF answer.state = "created" \/ answer.state = "restarting" THEN Polled(s)
        ELSE Waited(s, "state", Errorf("container is in unexpected state"))

\* the mutant of Rejected that waits for the holder of the name whatever
\* the message
RejectedAlwaysWaits(st, err) ==
    [st EXCEPT !.createErr = err, !.waitFor = err.id, !.i = Polls, !.pc = "inspect"]

\* CreateControllerContainer after ContainerCreate failed: a message that
\* matches starts the wait for the container it names
Rejected(st, err) ==
    LET match == concurrentInstallMatcher(err)
        s == [st EXCEPT !.createErr = err]
    IN  IF match.matched
        THEN [s EXCEPT !.waitFor = match.id, !.i = Polls, !.pc = "inspect"]
        ELSE Returned(s, Errorf("failed to create container"))

\* what the installers are called with and what the bridge network answers
InstallBridges ==
    {NetworkAnswer(TRUE, <<>>), NetworkAnswer(FALSE, <<>>), NetworkAnswer(FALSE, <<"">>),
     NetworkAnswer(FALSE, <<"", "172.17.0.1">>),
     NetworkAnswer(FALSE, <<"172.17.0.1", "10.0.0.1">>)}
InstallOverrides == {"", "0", "1"}
InstallPorts == {12434}
InstallGPUs == {"none", "cuda"}

\* CreateControllerContainer up to ContainerCreate: the configuration
InstallConfigure(p, overrides, bridges, gpus) ==
    /\ install.procs[p].pc = "idle"
    /\ \E treatAsMoby \in overrides, bridge \in bridges, gpu \in gpus, port \in InstallPorts,
          doNotTrack \in {FALSE} :
        install' = [install EXCEPT
            !.procs[p].pc = "create",
            !.procs[p].treatAsMoby = treatAsMoby,
            !.procs[p].bridge = bridge,
            !.procs[p].config =
                ControllerConfig(port, "moby", doNotTrack, gpu, treatAsMoby, bridge)]
    /\ UNCHANGED <<call, run, pull, tracker, chat, hist, session, eval, compose>>

\* ContainerCreate: the engine registers the container when the name is
\* free, refuses with the conflict that names the holder when it is not,
\* or fails otherwise
InstallCreate(p) ==
    LET st == [install.procs[p] EXCEPT !.calls = Append(@, "ContainerCreate")]
        holders == Holders(install.ctrs)
    IN  /\ install.procs[p].pc = "create"
        /\ \/ /\ holders # {}
              /\ \E c \in holders :
                    install' = [install EXCEPT !.procs[p] = Rejected(st, Conflict(c.id))]
           \/ /\ holders = {}
              /\ \E id \in EngineIDs \ install.used :
                    install' = [install EXCEPT
                        !.ctrs = @ \cup {Container(id, "registered", p, st.config)},
                        !.used = @ \cup {id},
                        !.accepted = Append(@, p),
                        !.procs[p] = [st EXCEPT !.pc = "creating", !.resp = id]]
           \/ install' = [install EXCEPT !.procs[p] = Rejected(st, EngineFailure)]
        /\ UNCHANGED <<call, run, pull, tracker, chat, hist, session, eval, compose>>

\* the engine has created the container and ContainerCreate returns
InstallCreated(p) ==
    LET st == install.procs[p]
    IN  /\ st.pc = "creating"
        /\ install' = [install EXCEPT
              !.ctrs = {IF c.id = st.resp THEN [c EXCEPT !.state = "created"] ELSE c :
                            c \in @},
              !.procs[p].pc = "start"]
        /\ UNCHANGED <<call, run, pull, tracker, chat, hist, session, eval, compose>>

\* the mutant of InstallStart that returns the error of a failed start
\* without removing the container
InstallStartLeavesContainer(p) ==
    LET st == [install.procs[p] EXCEPT !.calls = Append(@, "ContainerStart")]
    IN  /\ install.procs[p].pc = "start"
        /\ \/ /\ \E c \in install.ctrs : c.id = st.resp
              /\ install' = [install EXCEPT
                  !.ctrs = {IF c.id = st.resp THEN [c EXCEPT !.state = "running"] ELSE c :
                                c \in @},
                  !.procs[p] = Returned(st, Nil)]
           \/ install' = [install EXCEPT !.procs[p] =
                  Returned([st EXCEPT !.startFailed = TRUE],
                           Errorf("failed to start container"))]
        /\ UNCHANGED <<call, run, pull, tracker, chat, hist, session, eval, compose>>

\* ContainerStart: the container runs and the call returns nil, or the
\* start fails
InstallStart(p) ==
    LET st == [install.procs[p] EXCEPT !.calls = Append(@, "ContainerStart")]
    IN  /\ install.procs[p].pc = "start"
        /\ \/ /\ \E c \in install.ctrs : c.id = st.resp
              /\ install' = [install EXCEPT
                  !.ctrs = {IF c.id = st.resp THEN [c EXCEPT !.state = "running"] ELSE c :
                                c \in @},
                  !.procs[p] = Returned(st, Nil)]
           \/ install' = [install EXCEPT !.procs[p] =
                  [st EXCEPT !.pc = "remove", !.startFailed = TRUE]]
        /\ UNCHANGED <<call, run, pull, tracker, chat, hist, session, eval, compose>>

\* ContainerRemove after the failed start, its error ignored
InstallRemove(p) ==
    LET st == [install.procs[p] EXCEPT !.calls = Append(@, "ContainerRemove"),
                                       !.target = install.procs[p].resp]
    IN  /\ install.procs[p].pc = "remove"
        /\ \E removed \in BOOLEAN :
            install' = [install EXCEPT
                !.ctrs = IF removed THEN {c \in @ : c.id # st.resp} ELSE @,
                !.procs[p] = Returned(st, Errorf("failed to start container"))]
        /\ UNCHANGED <<call, run, pull, tracker, chat, hist, session, eval, compose>>

\* one inspection of waitForContainerToStart; the engine may fail it, and
\* fails it when the context is done
InstallInspect(p) ==
    LET st == install.procs[p]
    IN  /\ st.pc = "inspect"
        /\ \E failed \in BOOLEAN :
            install' = [install EXCEPT !.procs[p] =
                Inspected(st, ContainerInspect(install.ctrs, st.waitFor,
                                               failed \/ st.ctxDone))]
        /\ UNCHANGED <<call, run, pull, tracker, chat, hist, session, eval, compose>>

\* the select between two polls: the timer fires, the context is done, or
\* both are ready and either case is taken
InstallSleep(p) ==
    LET st == install.procs[p]
    IN  /\ st.pc = "sleep"
        /\ \E ready \in {"timer", "ctx", "both"}, taken \in {"timer", "ctx"} :
            /\ ready # "both" => taken = ready
            /\ install' = [install EXCEPT !.procs[p] =
                IF taken = "timer"
                THEN [st EXCEPT !.pc = "inspect", !.i = @ - 1, !.ctxDone = (ready = "both")]
                ELSE Waited([st EXCEPT !.ctxDone = TRUE, !.last = "ctx done"], "cancelled",
                            Errorf("waiting cancelled"))]
        /\ UNCHANGED <<call, run, pull, tracker, chat, hist, session, eval, compose>>

\* an installer outside the model registers its container
EngineForeignCreate ==
    /\ Holders(install.ctrs) = {}
    /\ \E id \in ForeignIDs \ install.used :
        install' = [install EXCEPT !.ctrs = @ \cup {Container(id, "registered", 0, <<>>)},
                                   !.used = @ \cup {id}]
    /\ UNCHANGED <<call, run, pull, tracker, chat, hist, session, eval, compose>>

\* the installer outside the model goes on: its container is created, is
\* started, or is removed after a failed start
EngineForeign ==
    /\ \E c \in install.ctrs :
        /\ c.owner = 0
        /\ \/ /\ c.state = "registered"
              /\ install' = [install EXCEPT
                    !.ctrs = (@ \ {c}) \cup {[c EXCEPT !.state = "created"]}]
           \/ /\ c.state = "created"
              /\ install' = [install EXCEPT
                    !.ctrs = (@ \ {c}) \cup {[c EXCEPT !.state = "running"]}]
           \/ /\ c.state = "created"
              /\ install' = [install EXCEPT !.ctrs = @ \ {c}]
    /\ UNCHANGED <<call, run, pull, tracker, chat, hist, session, eval, compose>>

\* a running container stops or restarts
EngineChange ==
    /\ \E c \in install.ctrs :
        \/ /\ c.state = "running"
           /\ \E s \in {"restarting", "exited"} :
                install' = [install EXCEPT !.ctrs = (@ \ {c}) \cup {[c EXCEPT !.state = s]}]
        \/ /\ c.state = "restarting"
           /\ install' = [install EXCEPT
                !.ctrs = (@ \ {c}) \cup {[c EXCEPT !.state = "running"]}]
    /\ UNCHANGED <<call, run, pull, tracker, chat, hist, session, eval, compose>>

\* the steps of one installer
InstallStep(p, overrides, bridges, gpus) ==
    \/ InstallConfigure(p, overrides, bridges, gpus)
    \/ InstallCreate(p)
    \/ InstallCreated(p)
    \/ InstallStart(p)
    \/ InstallRemove(p)
    \/ InstallInspect(p)
    \/ InstallSleep(p)

\* one installer, and one outside the model
InstallNext ==
    \/ InstallStep(1, InstallOverrides, InstallBridges, InstallGPUs)
    \/ EngineForeignCreate
    \/ EngineForeign
    \/ EngineChange

\* two installers
InstallRaceNext ==
    \/ \E p \in Procs : InstallStep(p, {""}, {NetworkAnswer(FALSE, <<"172.17.0.1">>)}, {"none"})
    \/ EngineChange

----------------------------------------------------------------------------
(* FindControllerContainer and the prune it starts with.                   *)

\* the orders in which the engine may list a set of containers
Listings(S) ==
    {l \in [1..Cardinality(S) -> S] : \A j, k \in DOMAIN l : l[j] = l[k] => j = k}

\* container.Summary of a container: its ID, Names and State when listed
Summary(c) ==
    [ID |-> c.id, Names |-> IF c.name = "" THEN <<>> ELSE <<"/" \o c.name>>,
     State |-> c.state]

\* the zero Summary
NoSummary == [ID |-> <<>>, Names |-> <<>>, State |-> ""]

\* ContainerList with the two label filters: the containers the engine
\* shows, all of them or the running ones only
ContainerList(ctrs, all) ==
    {c \in ctrs : c.state # "registered" /\ (all \/ c.state = "running")}

\* FindControllerContainer returns
Found(f, id, name, summary, err) ==
    [f EXCEPT !.pc = "done", !.ret = [id |-> id, name |-> name, summary |-> summary,
                                      err |-> err]]

\* the test of PruneControllerContainers that leaves a container alone
PruneSkips(skipRunning, ctr) == skipRunning /\ ctr.State = "running"

\* FindControllerContainer starts: PruneControllerContainers lists all the
\* controller containers
FindPrune ==
    /\ install.finder.pc = "idle"
    /\ \/ install' = [install EXCEPT !.finder =
            Found([@ EXCEPT !.calls = <<"ContainerList all">>], <<>>, "", NoSummary,
                  Wrap("unable to prune stopped model runner containers",
                       Errorf("unable to identify model runner containers")))]
       \/ \E l \in Listings(ContainerList(install.ctrs, TRUE)) :
            install' = [install EXCEPT !.finder =
                [@ EXCEPT !.pc = "prune", !.k = 1, !.calls = <<"ContainerList all">>,
                          !.containers = [j \in DOMAIN l |-> Summary(l[j])]]]
    /\ UNCHANGED <<call, run, pull, tracker, chat, hist, session, eval, compose>>

\* one turn of the loop of PruneControllerContainers: a container listed as
\* running is skipped, any other is removed by force; the line printed
\* takes the first 12 bytes of the ID, and the error of a failed removal
\* the first of the Names
FindRemove ==
    LET f == install.finder
    IN  /\ f.pc = "prune"
        /\ IF f.k > Len(f.containers)
           THEN install' = [install EXCEPT !.finder.pc = "list"]
           ELSE LET ctr == f.containers[f.k]
                    now == {c \in install.ctrs : c.id = ctr.ID}
                    g == [f EXCEPT !.calls = Append(@, "ContainerRemove"),
                                   !.k = @ + 1]
                IN  IF PruneSkips(TRUE, ctr)
                    THEN install' = [install EXCEPT !.finder.k = @ + 1]
                    ELSE IF Len(ctr.ID) < 12
                    THEN install' = [install EXCEPT !.finder =
                            [f EXCEPT !.pc = "done", !.panicked = TRUE]]
                    ELSE \/ /\ now # {}
                            /\ install' = [install EXCEPT
                                  !.ctrs = @ \ now,
                                  !.finder = [g EXCEPT !.removed =
                                      @ \cup {[id |-> c.id, state |-> c.state,
                                               owner |-> c.owner] : c \in now}]]
                         \/ install' = [install EXCEPT !.finder =
                               IF ctr.Names = <<>>
                               THEN [g EXCEPT !.pc = "done", !.panicked = TRUE]
                               ELSE Found(g, <<>>, "", NoSummary,
                                      Wrap("unable to prune stopped model runner containers",
                                           Errorf("failed to remove container")))]
        /\ UNCHANGED <<call, run, pull, tracker, chat, hist, session, eval, compose>>

\* FindControllerContainer lists the controller containers and returns the
\* first of them, its name without the leading slash
FindList ==
    LET f == [install.finder EXCEPT !.calls = Append(@, "ContainerList")]
    IN  /\ install.finder.pc = "list"
        /\ \/ install' = [install EXCEPT !.finder =
                Found(f, <<>>, "", NoSummary,
                      Errorf("unable to identify model runner containers"))]
           \/ \E l \in Listings(ContainerList(install.ctrs, FALSE)) :
                install' = [install EXCEPT !.finder =
                    IF Len(l) = 0 THEN Found([f EXCEPT !.listed = <<>>], <<>>, "", NoSummary, Nil)
                    ELSE Found([f EXCEPT !.listed = [j \in DOMAIN l |-> Summary(l[j])]],
                               l[1].id, l[1].name, Summary(l[1]), Nil)]
        /\ UNCHANGED <<call, run, pull, tracker, chat, hist, session, eval, compose>>

\* a controller container with another name, or with none, appears
EngineOther ==
    /\ \A c \in install.ctrs : c.name = controllerContainerName
    /\ \E name \in {"", "old-runner"}, state \in {"running", "exited"} :
        install' = [install EXCEPT !.ctrs =
            @ \cup {[Container(IDOdd, state, 0, <<>>) EXCEPT !.name = name]}]
    /\ UNCHANGED <<call, run, pull, tracker, chat, hist, session, eval, compose>>

\* one installer, the containers of the engine, and FindControllerContainer
FindNext ==
    \/ InstallConfigure(1, {""}, {NetworkAnswer(FALSE, <<"172.17.0.1">>)}, {"none"})
    \/ InstallCreate(1)
    \/ InstallCreated(1)
    \/ InstallStart(1)
    \/ InstallRemove(1)
    \/ EngineChange
    \/ EngineOther
    \/ FindPrune
    \/ FindRemove
    \/ FindList

----------------------------------------------------------------------------
(* Compose.                                                                *)

\* the most models one compose up is asked for
MaxComposeModels == 2

\* the names asked for: "a" is a tag, "b" an id, "c" neither
ComposeNames == {"a", "b", "c"}

\* the models the local store may list (desktop.Model: ID and Tags)
StoreModels == {[ID |-> "sha-a", Tags |-> {"a", "a:latest"}], [ID |-> "b", Tags |-> {}]}

\* the kinds of engine (desktop.ModelRunnerEngineKind*), and one that the
\* switch of up does not handle
EngineKinds == {"Desktop", "MobyManual", "Cloud", "Moby", "unhandled"}

\* what ensureStandaloneRunnerAvailable may answer: an error, no standalone
\* runner, or a runner with its gateway address and port
NoStandalone == [present |-> FALSE, gatewayIP |-> "", gatewayPort |-> 0]
Standalone(ip, port) == [present |-> TRUE, gatewayIP |-> ip, gatewayPort |-> port]
StandaloneAnswers ==
    {[err |-> e, runner |-> r] :
        e \in {"", "no docker"},
        r \in {NoStandalone, Standalone("", 12434), Standalone("172.17.0.1", 0),
               Standalone("172.17.0.1", 12434)}}

\* the base URL of a manually set runner, and modelRunner.URL(path)
ManualBaseURL == "http://localhost:13434"
URL(path) == ManualBaseURL \o path

\* strings.Join(models, ",")
RECURSIVE JoinComma(_)
JoinComma(models) ==
    IF models = <<>> THEN ""
    ELSE IF Len(models) = 1 THEN models[1]
    ELSE models[1] \o "," \o JoinComma(Tail(models))

\* the entries of the trace of up: a line written to stdout, or a call
jsonMessage(type, message) == [op |-> "event", type |-> type, message |-> message]
setenv(k, v) == jsonMessage("setenv", k \o "=" \o v)
sendError(message) == jsonMessage("error", message)
sendInfo(s) == jsonMessage("info", s)
UpCalled(op, model, ok) == [op |-> op, model |-> model, ok |-> ok]

\* the mutant of Downloaded that compares the ID only
DownloadedByID(modelsDownloaded, model) ==
    \E m \in modelsDownloaded : model = m.ID

\* the test of downloadModelsOnlyIfNotFound: some model listed has the name
\* as its ID or among its Tags
Downloaded(modelsDownloaded, model) ==
    \E m \in modelsDownloaded : model = m.ID \/ model \in m.Tags

\* the endpoint rule at the end of up; "" for a kind it does not handle
EndpointURL(kind, standalone) ==
    CASE kind = "Desktop" -> "http://model-runner.docker.internal/engines/v1/"
      [] kind = "MobyManual" -> URL("/engines/v1/")
      [] kind \in {"Cloud", "Moby"} ->
            "http://" \o standalone.gatewayIP \o ":"
                \o ToString(standalone.gatewayPort) \o "/engines/v1"
      [] OTHER -> ""

\* compose before up; log is everything up did, in order
ComposeIdle ==
    [pc |-> "idle", models |-> <<>>, ctxSize |-> 0, rawRuntimeFlags |-> "",
     kind |-> "", standalone |-> NoStandalone, listed |-> {}, i |-> 0,
     log |-> <<>>, ret |-> "none", err |-> Nil]

\* up returns
ComposeReturn(c, err) ==
    [c EXCEPT !.pc = "done", !.ret = IF err = Nil THEN "nil" ELSE "error", !.err = err]

\* the mutant of AfterDownloads that emits MODEL only at the end of up
AfterDownloadsQuiet(c) == [c EXCEPT !.pc = "configure", !.i = 1]

\* downloadModelsOnlyIfNotFound after its loop: it emits MODEL and returns
\* nil, and up goes on to configure the models
AfterDownloads(c) ==
    [c EXCEPT !.pc = "configure", !.i = 1,
              !.log = Append(@, setenv("MODEL", JoinComma(c.models)))]

\* up after its loop of ConfigureBackend: the URL by engine kind
AfterConfigure(c) ==
    IF c.kind \in {"Desktop", "MobyManual", "Cloud", "Moby"}
    THEN ComposeReturn([c EXCEPT !.log =
            Append(@, setenv("URL", EndpointURL(c.kind, c.standalone)))], Nil)
    ELSE ComposeReturn(c, Errorf("unhandled engine kind"))

ComposeContexts == {4096, -1}
ComposeFlags == {"", "--threads 2"}

\* up starts: the flags are read, and without a model it fails at once
ComposeUp ==
    /\ compose.pc = "idle"
    /\ \E models \in SeqsUpTo(ComposeNames, MaxComposeModels),
          ctxSize \in ComposeContexts, flags \in ComposeFlags, kind \in EngineKinds :
        LET c == [compose EXCEPT !.models = models, !.ctxSize = ctxSize,
                                 !.rawRuntimeFlags = flags, !.kind = kind]
            info == <<sendInfo("Initializing model runner...")>>
                    \o (IF ctxSize # 4096 THEN <<sendInfo("Setting context size")>> ELSE <<>>)
                    \o (IF flags # "" THEN <<sendInfo("Setting raw runtime flags")>> ELSE <<>>)
        IN  compose' =
                IF Len(models) = 0
                THEN ComposeReturn([c EXCEPT !.log = <<sendError("options.model is required")>>],
                                   Errorf("options.model is required"))
                ELSE [c EXCEPT !.pc = "ensure", !.log = info]
    /\ UNCHANGED <<call, run, pull, tracker, chat, hist, session, eval, install>>

\* ensureStandaloneRunnerAvailable answers
ComposeEnsure ==
    /\ compose.pc = "ensure"
    /\ \E a \in StandaloneAnswers :
        LET c == [compose EXCEPT !.log = Append(@, UpCalled("ensure", "", a.err = "")),
                                 !.standalone = IF a.err = "" THEN a.runner ELSE NoStandalone]
            s == c.standalone
        IN  compose' =
                IF a.err # ""
                THEN ComposeReturn([c EXCEPT !.log = Append(@,
                        sendError("Failed to initialize standalone model runner"))],
                        Wrap("Failed to initialize standalone model runner", Errorf(a.err)))
                ELSE IF \/ (compose.kind \in {"Moby", "Cloud"} /\ ~s.present)
                        \/ (s.present /\ (s.gatewayIP = "" \/ s.gatewayPort = 0))
                THEN ComposeReturn(c, Errorf("unable to determine standalone runner endpoint"))
                ELSE [c EXCEPT !.pc = "list"]
    /\ UNCHANGED <<call, run, pull, tracker, chat, hist, session, eval, install>>

\* downloadModelsOnlyIfNotFound lists the models of the store
ComposeList ==
    /\ compose.pc = "list"
    /\ \E failed \in BOOLEAN, listed \in SUBSET StoreModels :
        LET c == [compose EXCEPT !.log = Append(@, UpCalled("List", "", ~failed))]
        IN  compose' =
                IF failed
                THEN ComposeReturn([c EXCEPT !.log = Append(@,
                        sendError("Failed to get models list"))], Errorf("list failed"))
                ELSE [c EXCEPT !.pc = "download", !.i = 1, !.listed = listed]
    /\ UNCHANGED <<call, run, pull, tracker, chat, hist, session, eval, install>>

\* one turn of the loop of downloadModelsOnlyIfNotFound, and after the last
\* model the end of the function
ComposeDownload ==
    /\ compose.pc = "download"
    /\ IF compose.i > Len(compose.models)
       THEN compose' = AfterDownloads(compose)
       ELSE LET model == compose.models[compose.i]
            IN  IF Downloaded(compose.listed, model)
                THEN compose' = [compose EXCEPT !.i = @ + 1]
                ELSE \E failed \in BOOLEAN :
                        LET c == [compose EXCEPT !.log =
                                    @ \o <<UpCalled("Pull", model, ~failed)>>
                                      \o (IF failed THEN <<>> ELSE <<sendInfo("Model pulled")>>)]
                        IN  compose' =
                                IF failed
                                THEN ComposeReturn([c EXCEPT !.log = Append(@,
                                        sendError("Failed to pull model"))],
                                        Errorf("Failed to pull model"))
                                ELSE [c EXCEPT !.i = @ + 1]
    /\ UNCHANGED <<call, run, pull, tracker, chat, hist, session, eval, install>>

\* one turn of the loop of ConfigureBackend, and after the last model the
\* end of up
ComposeConfigure ==
    /\ compose.pc = "configure"
    /\ IF compose.i > Len(compose.models)
       THEN compose' = AfterConfigure(compose)
       ELSE LET model == compose.models[compose.i]
            IN  \E failed \in BOOLEAN :
                    LET c == [compose EXCEPT !.log =
                                Append(@, UpCalled("ConfigureBackend", model, ~failed))]
                    IN  compose' =
                            IF failed
                            THEN ComposeReturn([c EXCEPT !.log = Append(@,
                                    sendError("failed to configure backend for model"))],
                                    Errorf("failed to configure backend for model"))
                            ELSE [c EXCEPT !.i = @ + 1, !.log = Append(@,
                                    sendInfo("Successfully configured backend for model " \o model))]
    /\ UNCHANGED <<call, run, pull, tracker, chat, hist, session, eval, install>>

ComposeNext ==
    \/ ComposeUp
    \/ ComposeEnsure
    \/ ComposeList
    \/ ComposeDownload
    \/ ComposeConfigure

----------------------------------------------------------------------------
(* The specifications.                                                     *)

Init ==
    /\ call = NoCall
    /\ run = RunIdle
    /\ pull = PullIdle
    /\ tracker = TrackerNew
    /\ chat = ChatIdle
    /\ hist = HistNone
    /\ session = SessionIdle
    /\ eval = EvalIdle
    /\ install = InstallIdle
    /\ compose = ComposeIdle

\* the whole program: any of its parts takes a step
Next ==
    ClientNext \/ RunNext \/ PullNext \/ TrackerNext \/ TrackerRaceNext \/ ChatNext \/ HistoryRaceNext
        \/ SessionNext \/ NavigateNext \/ MultilineNext \/ ReadLineNext \/ InstallNext
        \/ InstallRaceNext \/ FindNext \/ ComposeNext

\* the client's calls
SpecClient == Init /\ [][ClientNext]_vars

\* the run command
SpecRun == Init /\ [][RunNext]_vars

\* one pull, line by line
SpecPull == Init /\ [][PullNext]_vars

\* the progress tracker
SpecTracker == Init /\ [][TrackerNext]_vars

\* the progress tracker called from several goroutines
SpecTrackerRace == Init /\ [][TrackerRaceNext]_vars

\* one chat, line by line
SpecChat == Init /\ [][ChatNext]_vars

\* the history of one process
SpecHistory == Init /\ [][HistoryNext]_vars

\* the history file shared by two processes
SpecHistoryRace == Init /\ [][HistoryRaceNext]_vars

\* the interactive chat loop
SpecSession == Init /\ [][SessionNext]_vars

\* Previous and Next on every history and index
SpecNavigate == Init /\ [][NavigateNext]_vars

\* readMultilineString on every input
SpecMultiline == Init /\ [][MultilineNext]_vars

\* readLine with its goroutine; the scheduler runs a goroutine that can
\* take a step, and a select with a ready case takes one
SpecReadLine ==
    /\ Init /\ [][ReadLineNext]_vars
    /\ WF_vars(ReadLineRead) /\ WF_vars(ReadLineReceive)
    /\ WF_vars(ReadLineClose) /\ WF_vars(ReadLineDone)

\* one installer and the engine
SpecInstall == Init /\ [][InstallNext]_vars

\* two installers and the engine
SpecInstallRace == Init /\ [][InstallRaceNext]_vars

\* FindControllerContainer beside one installer
SpecFind == Init /\ [][FindNext]_vars

\* one compose up
SpecCompose == Init /\ [][ComposeNext]_vars

----------------------------------------------------------------------------
(* The claims.                                                             *)

\* the operations that take a model reference
RefOps == {"Pull", "Push", "Inspect", "InspectOpenAI", "Chat", "Remove", "Tag"}

\* a request whose URL or body carries a model reference
CarriesRef(req) == req.route # "GET /models" /\ req.route \in
    {"POST /models/create", "POST /models/{ref}/push", "GET /models/{ref}",
     "GET /inference/v1/models/{ref}", "POST /chat/completions",
     "DELETE /models/{ref}", "POST /models/{ref}/tag"}

\* the requests of the last call that carry a reference: one per reference
\* handled, in the order of the references
SentRefs == SelectSeq(call.reqs, CarriesRef)

\* C1: every operation that takes a reference sends it normalized: a
\* reference that begins with "hf.co/" goes out lower-cased, any other
\* reference that contains "/" goes out unchanged, and no request carries a
\* reference that begins with "hf.co/" and has an upper-case letter.
C1_NormalizedOnTheWire ==
    call.op \in RefOps =>
        \A i \in 1..Len(SentRefs) :
            LET x == call.args[i]
                ref == SentRefs[i].ref
            IN  /\ HasPrefix(x, HFPrefix) => ref = ToLower(x)
                /\ ~HasPrefix(x, HFPrefix) /\ ContainsSlash(x) => ref = x
                /\ ~(HasPrefix(ref, HFPrefix) /\ HasUpper(ref))

\* C1's case: a mixed-case HuggingFace reference was inspected and went out
\* in lower case
C1_Witness ==
    /\ call.op = "Inspect"
    /\ call.args = <<HFPrefix \o <<"A", "b">>>>
    /\ Len(SentRefs) = 1
    /\ SentRefs[1].ref = HFPrefix \o <<"a", "b">>

\* the reference names model m of the listing, as the claim words it
NamesModel(x, m) ==
    \/ x = SubSeq(m, 8, 19)
    \/ x = SubSeq(m, 8, Len(m))
    \/ x = m

\* the full id of the first model of the listing ms that x names, <<>> if none
FirstNamed(x, ms) ==
    LET hits == {i \in 1..Len(ms) : NamesModel(x, ms[i])}
    IN  IF hits = {} THEN <<>>
        ELSE ms[CHOOSE i \in hits : \A j \in hits : i <= j]

\* the place in the last call's requests of its i-th request with a reference
SentPos(i) ==
    CHOOSE p \in 1..Len(call.reqs) :
        /\ CarriesRef(call.reqs[p])
        /\ Cardinality({q \in 1..p : CarriesRef(call.reqs[q])}) = i

\* the last call listed the models
Looked == \E p \in 1..Len(call.reqs) : call.reqs[p].route = "GET /models"

\* the listing that is the p-th request answered with a model that x names
ListedFor(x, p) ==
    /\ call.reqs[p].code = StatusOK
    /\ call.reqs[p].json
    /\ FirstNamed(x, call.reqs[p].models) # <<>>

\* C2 as stated: in every operation that takes a reference, a reference with
\* no "/" after trimming slashes is looked up and replaced by the full id of
\* the first listed model it names; one with "/" is never looked up or
\* replaced.
C2_Original ==
    call.op \in RefOps /\ Len(call.args) = 1 =>
        LET x == call.args[1]
        IN  /\ IsBareID(x) =>
                /\ Looked
                /\ ListedFor(x, 1) =>
                      /\ Len(SentRefs) = 1
                      /\ SentRefs[1].ref = FirstNamed(x, call.reqs[1].models)
            /\ ~IsBareID(x) =>
                /\ ~Looked
                /\ \A i \in 1..Len(SentRefs) :
                      SentRefs[i].ref = normalizeHuggingFaceModelName(x)

\* C2 (amended): Inspect (of a non-empty reference), InspectOpenAI, Chat and
\* Tag look up a reference that has no "/" after trimming slashes, Remove one
\* that has no "/" at all, and when the listing names a model the reference
\* is replaced by the full id of the first listed model it names; Pull and
\* Push never look up; a reference with "/" after trimming is never looked
\* up or replaced.
C2_LookupOfBareIDs ==
    /\ call.op \in {"Inspect", "InspectOpenAI", "Chat", "Tag"} =>
        LET x == call.args[1]
        IN  /\ Looked <=> (IsBareID(x) /\ (call.op = "Inspect" => x # <<>>))
            /\ Looked /\ ListedFor(x, 1) =>
                  /\ Len(SentRefs) = 1
                  /\ SentRefs[1].ref = FirstNamed(x, call.reqs[1].models)
            /\ ~IsBareID(x) =>
                  \A i \in 1..Len(SentRefs) :
                      SentRefs[i].ref = normalizeHuggingFaceModelName(x)
    /\ call.op = "Remove" =>
        \A i \in 1..Len(SentRefs) :
            LET x == call.args[i]
                p == SentPos(i)
                looked == p > 1 /\ call.reqs[p - 1].route = "GET /models"
            IN  /\ looked <=> ~ContainsSlash(x)
                /\ looked /\ ListedFor(x, p - 1) =>
                      SentRefs[i].ref = FirstNamed(x, call.reqs[p - 1].models)
                /\ ~IsBareID(x) => SentRefs[i].ref = normalizeHuggingFaceModelName(x)
    /\ call.op \in {"Pull", "Push"} =>
        /\ ~Looked
        /\ \A i \in 1..Len(SentRefs) :
              SentRefs[i].ref = normalizeHuggingFaceModelName(call.args[1])

\* C2's case: a 12-character id that two listed models share was looked up
\* and replaced by the full id of the one listed first
C2_Witness ==
    /\ call.op = "Chat"
    /\ call.args = <<ShortID(ID1)>>
    /\ call.reqs[1].models = <<ID2, ID1>>
    /\ Len(SentRefs) = 1
    /\ SentRefs[1].ref = ID2

\* the operations of the client other than Status
NonStatusOps ==
    {"Pull", "Push", "List", "Inspect", "InspectOpenAI", "Chat", "Remove", "PS", "DF",
     "Unload", "ConfigureBackend", "Tag", "LoadModel"}

\* C3: in every operation other than Status, an answer of 503 makes the call
\* fail with an error that is ErrServiceUnavailable.
C3_Original ==
    /\ call.op \in NonStatusOps
    /\ \E p \in 1..Len(call.reqs) : call.reqs[p].code = StatusServiceUnavailable
    => ErrorsIs(call.err, ErrServiceUnavailable)

\* C4: Status reports a probe answered 503 as not running and without an
\* error, is running exactly when the probe is answered 200 (and then
\* without an error, whatever the /status request gives), and reports every
\* other probe outcome as not running with an error.
C4_StatusOf503 ==
    call.op = "Status" =>
        LET probe == call.reqs[1].code
        IN  /\ probe = StatusServiceUnavailable => ~call.running /\ call.err = Nil
            /\ call.running <=> probe = StatusOK
            /\ call.running => call.err = Nil
            /\ probe \notin {StatusOK, StatusServiceUnavailable} =>
                  ~call.running /\ call.err # Nil

\* C4's case: the probe was answered 200 and the /status request failed
C4_Witness ==
    /\ call.op = "Status"
    /\ call.reqs[1].code = StatusOK
    /\ Len(call.reqs) = 2
    /\ call.reqs[2].code = StatusServiceUnavailable
    /\ call.running
    /\ call.err = Nil

\* the backend, or the missing key, that `run` must reject
InvalidRun ==
    \/ run.backend # "" /\ run.backend \notin {"llama.cpp", "openai"}
    \/ run.backend = "openai" /\ run.apiKey = ""

\* C5: `run` with a backend outside {llama.cpp, openai}, or with openai and
\* no OPENAI_API_KEY, ends with a validation error before the runner is
\* ensured and without any request to the runner.
C5_ValidationBeforeDispatch ==
    run.pc # "idle" /\ InvalidRun =>
        /\ run.pc = "done"
        /\ run.err # Nil
        /\ ~run.ensured
        /\ run.calls = <<>>
        /\ run.reqs = <<>>

\* C5's case: openai was asked for without a key
C5_Witness ==
    /\ run.pc = "done"
    /\ run.backend = "openai"
    /\ run.apiKey = ""
    /\ run.err # Nil

\* a line of the pull stream that ends the pull
EndsPull(line) == line.kind \notin {"empty", "progress"}

C7_Original ==
    /\ pull.pc = "done"
    /\ pull.lines = <<Line("progress", "layerA", 500, 1000, ""), SuccessLine>>
    => /\ Len(pull.renders) = 1
       /\ pull.renders[1].percent = 50
       /\ pull.message = "Model pulled"
       /\ pull.err = Nil

\* C8: two consecutive renders of one pull are at least 100 ms apart unless
\* the later one shows current = total; so a message that comes less than
\* 100 ms after a render with current # total is not rendered.
C8_RenderThrottle ==
    \A i \in 1..(Len(pull.renders) - 1) :
        \/ pull.renders[i + 1].at - pull.renders[i].at >= 100
        \/ pull.renders[i + 1].current = pull.renders[i + 1].total

\* C8's case: after two renders less than 100 ms apart (the later one at
\* current = total) a message was left unrendered
C8_Witness ==
    /\ Len(pull.renders) >= 2
    /\ pull.renders[2].at - pull.renders[1].at < 100
    /\ pull.suppressed # <<>>

\* C9: Stop, when a layer was observed, clears the lines of the last render
\* and prints one line "<display id>: Pull complete" per layer in ascending
\* order of the layer ids, whatever the layers' statuses; with no layer it
\* prints one newline.
C9_StopPrintsFinalState ==
    tracker.op = "Stop" =>
        IF DOMAIN tracker.layers = {}
        THEN tracker.printed = <<Newline>>
        ELSE LET n == Cardinality(DOMAIN tracker.layers)
                 k == Len(tracker.printed) - n
             IN  /\ k >= 0
                 /\ \A i \in 1..k : tracker.printed[i] = ClearLine
                 /\ tracker.onScreen = 0
                 /\ \E ids \in [1..n -> DOMAIN tracker.layers] :
                       /\ \A i, j \in 1..n : i < j => StringLess(ids[i], ids[j])
                       /\ \A i \in 1..n :
                             tracker.printed[k + i] =
                                 [t |-> "final", id |-> DisplayID(ids[i]),
                                  status |-> "Pull complete", filled |-> 0]

\* C9's case: Stop cleared two progress lines, one of a layer that was
\* still extracting
C9_Witness ==
    /\ tracker.op = "Stop"
    /\ DOMAIN tracker.layers = {LayerA, LayerD}
    /\ tracker.layers[LayerA].Status = "Extracting"
    /\ tracker.printed[1] = ClearLine
    /\ tracker.printed[2] = ClearLine
    /\ Len(tracker.printed) = 4

\* how often token tok occurs in what the last chunk printed
Emitted(tok) == Cardinality({i \in 1..Len(chat.emitted) : chat.emitted[i] = tok})

\* C10: Chat prints by the machine None/Content/Reasoning: the header is
\* printed exactly when a reasoning fragment comes in a state other than
\* Reasoning, two newlines exactly when a fragment of one kind comes in the
\* state of the other kind, the state after a fragment is its kind, and the
\* state is None only as long as nothing was printed.
C10_PrinterStateMachine ==
    chat.lines # <<>> =>
        LET line == chat.lines[Len(chat.lines)]
            r == line.kind = "chunk" /\ line.choices > 0 /\ line.reasoning # ""
            c == line.kind = "chunk" /\ line.choices > 0 /\ line.content # ""
            s0 == chat.prev
        IN  /\ Emitted(ThinkingHeader) = IF r /\ s0 # "Reasoning" THEN 1 ELSE 0
            /\ Emitted(TwoNewlines) =
                  (IF r /\ s0 = "Content" THEN 1 ELSE 0)
                      + (IF c /\ (r \/ s0 = "Reasoning") THEN 1 ELSE 0)
            /\ chat.printerState = IF c THEN "Content" ELSE IF r THEN "Reasoning" ELSE s0
            /\ chat.printerState = "None" <=> chat.out = <<>>
            /\ chat.out # <<>> => chat.out[1] # TwoNewlines

\* C10's case: a reasoning fragment came after content, so two newlines and
\* the header were printed
C10_Witness ==
    /\ chat.prev = "Content"
    /\ chat.printerState = "Reasoning"
    /\ Emitted(ThinkingHeader) = 1
    /\ Emitted(TwoNewlines) = 1

\* the non-empty content fragments of choices[0] of the chunks among ls
ContentSent(ls) ==
    LET keep == SelectSeq(ls, LAMBDA l : l.kind = "chunk" /\ l.choices > 0 /\ l.content # "")
    IN  [i \in 1..Len(keep) |-> keep[i].content]

\* the same for the reasoning fragments
ReasoningSent(ls) ==
    LET keep == SelectSeq(ls, LAMBDA l : l.kind = "chunk" /\ l.choices > 0 /\ l.reasoning # "")
    IN  [i \in 1..Len(keep) |-> keep[i].reasoning]

\* the fragments of kind t that Chat wrote
Written(t) ==
    LET keep == SelectSeq(chat.out, LAMBDA o : o.t = t)
    IN  [i \in 1..Len(keep) |-> keep[i].s]

\* the lines of body ls that come before its first "data: [DONE]"
BeforeDone(ls) ==
    LET dones == {i \in 1..Len(ls) : ls[i].kind = "done"}
    IN  IF dones = {} THEN ls
        ELSE SubSeq(ls, 1, (CHOOSE i \in dones : \A j \in dones : i <= j) - 1)

\* C11: the content fragments Chat wrote are, in order and without loss or
\* duplication, the non-empty choices[0].delta.content values of the chunks
\* it received, and when Chat returns without error these are all the chunks
\* of the body before "data: [DONE]"; the same for the reasoning fragments.
C11_ChatPreservesFragments ==
    /\ Written("content") = ContentSent(chat.lines)
    /\ Written("reasoning") = ReasoningSent(chat.lines)
    /\ chat.pc = "done" /\ chat.err = Nil =>
          /\ Written("content") = ContentSent(BeforeDone(chat.lines \o chat.unread))
          /\ Written("reasoning") = ReasoningSent(BeforeDone(chat.lines \o chat.unread))

\* C11's case: a chat wrote three fragments of both kinds, one of them twice
C11_Witness ==
    /\ chat.pc = "done"
    /\ chat.err = Nil
    /\ Written("content") = <<"c2", "c1">>
    /\ Written("reasoning") = <<"r1", "r1">>

\* C12: the scanner loop prints nothing for an empty line or a line without
\* the "data: " prefix and goes on; it stops at the first "data: [DONE]":
\* nothing after it in the body is read or printed, and Chat returns nil.
C12_StopsAtDone ==
    LET n == Len(chat.lines)
    IN  /\ \A i \in 1..(n - 1) : chat.lines[i].kind # "done"
        /\ n > 0 /\ chat.lines[n].kind \in {"blank", "other"} =>
              /\ chat.emitted = <<>>
              /\ chat.printerState = chat.prev
              /\ chat.pc = "streaming" => chat.err = Nil
              /\ chat.pc = "done" => chat.unread = <<>>
        /\ n > 0 /\ chat.lines[n].kind = "done" =>
              /\ chat.pc = "done"
              /\ chat.err = Nil
              /\ chat.emitted = <<>>
              /\ Written("content") = ContentSent(SubSeq(chat.lines, 1, n - 1))
              /\ Written("reasoning") = ReasoningSent(SubSeq(chat.lines, 1, n - 1))

\* C12's case: Chat stopped at "data: [DONE]" after an ignored line and a
\* chunk, and left a chunk of the body unread
C12_Witness ==
    /\ chat.pc = "done"
    /\ Len(chat.lines) = 3
    /\ chat.lines[1].kind = "other"
    /\ chat.lines[2].content = "c1"
    /\ chat.lines[3].kind = "done"
    /\ chat.unread # <<>>
    /\ chat.unread[1].content = "c2"
    /\ Written("content") = <<"c1">>

\* the inspect request of the run was answered 404
InspectAnswered404 ==
    \E p \in 1..Len(run.reqs) :
        /\ run.reqs[p].route = "GET /models/{ref}"
        /\ run.reqs[p].code = StatusNotFound

\* C13: `run` with a backend other than openai inspects first and pulls
\* exactly when the inspect request for a non-empty reference is answered
\* 404, which is when Inspect fails with ErrNotFound; any other failure of
\* Inspect ends the command with no pull and no chat; with openai the
\* command neither inspects nor pulls.
C13_PullOnInspect404 ==
    /\ run.backend # "openai" /\ run.calls # <<>> =>
          LET notFound == ErrorsIs(run.results[1], ErrNotFound)
              pulls == {i \in 1..Len(run.calls) : run.calls[i] = "Pull"}
          IN  /\ run.calls[1] = "Inspect"
              /\ notFound <=> (InspectAnswered404 /\ run.model # <<>>)
              /\ notFound <=> (run.pc = "pull" \/ pulls = {2})
              /\ ~notFound => pulls = {}
              /\ run.results[1] # Nil /\ ~notFound =>
                    /\ run.pc = "done"
                    /\ run.err # Nil
                    /\ run.calls = <<"Inspect">>
    /\ run.backend = "openai" =>
          \A i \in 1..Len(run.calls) : run.calls[i] \notin {"Inspect", "Pull"}

\* C13's case: the inspect of ai/s was answered 404, the model was pulled
\* and the prompt was answered
C13_Witness ==
    /\ run.pc = "done"
    /\ run.backend = "llama.cpp"
    /\ run.calls = <<"Inspect", "Pull", "Chat">>
    /\ ErrorsIs(run.results[1], ErrNotFound)
    /\ run.results[2] = Nil
    /\ run.err = Nil

\* the history of the one process, and the history file
H1 == hist.procs[1]
HistoryFile == FileAt(hist, hist.path)

\* an Append of the one process has returned
Appended == H1.pc = "ready" /\ H1.appends > 0

\* the history after the Append is the end of the history before it,
\* followed by the line, and no longer than MaxHistoryLength
KeptMostRecent ==
    LET ext == H1.before.history \o <<H1.question>>
        n == Len(H1.history)
    IN  /\ n = IF Len(ext) > MaxHistoryLength THEN MaxHistoryLength ELSE Len(ext)
        /\ n <= MaxHistoryLength
        /\ H1.history[n] = H1.question
        /\ \A i \in 1..n : H1.history[i] = ext[Len(ext) - n + i]

\* C17 as stated: Append leaves the history and the history file unchanged
\* iff the line contains a newline; any other line ends up last in a history
\* of at most MaxHistoryLength entries that keeps the most recent entries in
\* their order.
C17_Original ==
    Appended =>
        /\ (H1.history = H1.before.history /\ HistoryFile = H1.before.file)
              <=> ContainsNewline(H1.question)
        /\ ~ContainsNewline(H1.question) => KeptMostRecent

\* C17 (amended): Append leaves the history and the history file unchanged
\* if the line contains a newline; any other line ends up last in a history
\* of at most MaxHistoryLength entries that keeps the most recent entries in
\* their order, which differs from the history before unless that held
\* MaxHistoryLength copies of the line, and an Append that succeeds has
\* written that history to the file.
C17_AppendKeepsMostRecent ==
    Appended =>
        /\ ContainsNewline(H1.question) =>
              /\ H1.history = H1.before.history
              /\ HistoryFile = H1.before.file
              /\ ~H1.wrote
              /\ H1.err = Nil
        /\ ~ContainsNewline(H1.question) =>
              /\ KeptMostRecent
              /\ H1.history = H1.before.history <=>
                    /\ Len(H1.before.history) = MaxHistoryLength
                    /\ \A i \in 1..MaxHistoryLength : H1.before.history[i] = H1.question
              /\ H1.err = Nil => H1.wrote /\ HistoryFile = File(Join(H1.history))

\* C17's case: an Append to a full history evicted its oldest entry and
\* wrote the file
C17_Witness ==
    /\ Appended
    /\ H1.wrote
    /\ Len(H1.before.history) = MaxHistoryLength
    /\ H1.before.history[1] # H1.before.history[2]
    /\ H1.history = Tail(H1.before.history) \o <<H1.question>>
    /\ HistoryFile = File(Join(H1.history))

\* C18: loading the file that the last successful Append wrote yields the
\* in-memory history with every repeated line removed, first occurrences
\* kept in order.
C18_Original ==
    Appended /\ H1.wrote /\ H1.err = Nil =>
        load(<<>>, HistoryFile, FALSE).history = Dedup(H1.history)

\* C19: at every step of Append's persistence the history path, once it
\* has named a file, names a file that holds the complete content from
\* before the Append or the complete new content.
C19_Original ==
    hist.existed =>
        /\ HistoryFile.exists
        /\ H1.pc \in {"mkdir", "create", "write", "remove", "rename"} =>
              HistoryFile.data \in {H1.before.file.data, H1.buf}

\* process p ran its Append to the end of its file system steps
RanAppend(p) ==
    /\ hist.procs[p].pc = "ready"
    /\ hist.procs[p].appends = 1
    /\ ~ContainsNewline(hist.procs[p].question)
    /\ hist.procs[p].err \notin {Errorf("mkdir"), Errorf("open history.txt.tmp")}

\* C20: when two processes have run Append concurrently, the history file
\* exists and holds the complete history that one of them wrote, and
\* neither Append has failed because of the other.
C20_Original ==
    RanAppend(1) /\ RanAppend(2) =>
        /\ HistoryFile.exists
        /\ HistoryFile.data \in {hist.procs[1].buf, hist.procs[2].buf}
        /\ hist.procs[1].err = Nil
        /\ hist.procs[2].err = Nil

\* the last question submitted has been dealt with
Dealt == session.pc \in {"edit", "done"} /\ session.did # "none"

\* the history, in memory and on disk, is as the last question found it
HistoryKept ==
    session.history = session.before.history /\ session.file = session.before.file

\* the last question was passed to Chat, once, and nothing else was
SentQuestion == session.sent = Append(session.before.sent, session.question)

\* the cases of the switch that are no chat turn
NoTurn == {"bye", "blank", "help", "shortcuts", "copy", "nothing to copy", "unknown"}

\* C14, as stated: the history changes only in a chat turn that returned
\* without error; a slash command, a blank line and a failed chat turn leave
\* the history and the stored last response as they were, and only the
\* failed turn sent a chat request
C14_Original ==
    /\ ~HistoryKept => (session.did = "chat" /\ session.chatErr = Nil)
    /\ session.did \in NoTurn =>
        /\ session.sent = session.before.sent
        /\ HistoryKept
        /\ session.lastResp = session.before.lastResp
    /\ (session.did = "chat" /\ session.chatErr # Nil) =>
        /\ SentQuestion
        /\ HistoryKept
        /\ session.lastResp = session.before.lastResp

\* C14: the history changes only in a chat turn that returned without
\* error; a slash command and a blank line send no chat request and leave
\* the history and the stored last response as they were; a failed chat turn
\* sends its own request only, leaves the history as it was and ends the
\* loop with a nil error, and the stored last response is what the failed
\* Chat handed back
C14_FrameOfTheLoop ==
    /\ ~HistoryKept => (session.did = "chat" /\ session.chatErr = Nil)
    /\ session.did \in NoTurn =>
        /\ session.sent = session.before.sent
        /\ HistoryKept
        /\ session.lastResp = session.before.lastResp
    /\ (session.did = "chat" /\ session.chatErr # Nil) =>
        /\ SentQuestion
        /\ HistoryKept
        /\ session.pc = "done" /\ session.err = Nil
        /\ session.lastResp \in {<<>>, <<"c1">>}

\* a chat turn failed after one that had stored a response, and the stored
\* response is another now, the history the same
C14_Witness ==
    /\ session.did = "chat" /\ session.chatErr # Nil
    /\ session.before.lastResp # <<>>
    /\ session.lastResp # session.before.lastResp
    /\ session.before.history # <<>>
    /\ HistoryKept

\* the last question went through the multi-line capture and its chat turn
CapturedTurn == session.multi /\ session.did = "chat"

\* the payload of the inputs whose capture is written out here: the line
\* entered and the standard input behind it
PayloadAsWritten ==
    /\ session.entered = TripleDouble \o <<"h", "i">> \o TripleDouble
        => session.payload = <<"h", "i">>
    /\ (session.entered = TripleDouble \o <<"a">>
            /\ session.stdin = <<"b", NL>> \o TripleDouble \o <<NL>>)
        => session.payload = <<"a", NL, "b">>
    /\ (session.entered = TripleDouble \o <<"a">> /\ session.stdin = TripleDouble)
        => session.payload = <<"a">>
    /\ (session.entered = TripleSingle
            /\ session.stdin = <<"b">> \o TripleSingle \o <<NL>>)
        => session.payload = <<NL, "b">>

\* C15, as stated: a prompt entered through multi-line capture sends the
\* captured payload to chat and leaves the history unchanged
C15_Original ==
    CapturedTurn => (SentQuestion /\ session.question = session.payload /\ HistoryKept)

\* C15: a prompt entered through multi-line capture sends the captured
\* payload (the text between the delimiters, trailing newlines trimmed) to
\* chat; the history is unchanged when the payload holds a newline or the
\* chat failed, and otherwise the payload is appended to it as a single-line
\* prompt is
C15_CapturedPayload ==
    CapturedTurn =>
        /\ SentQuestion /\ session.question = session.payload
        /\ PayloadAsWritten
        /\ (ContainsNewline(session.payload) \/ session.chatErr # Nil) => HistoryKept
        /\ (~ContainsNewline(session.payload) /\ session.chatErr = Nil)
            => /\ session.history = HistoryAppend(session.before.history, session.payload)
               /\ session.err = Nil => session.file = File(Join(session.history))

\* a payload of one line, captured from """hi""", was sent and is now the
\* last entry of the history
C15_Witness ==
    /\ CapturedTurn /\ session.chatErr = Nil /\ session.err = Nil
    /\ session.entered = TripleDouble \o <<"h", "i">> \o TripleDouble
    /\ session.sent[Len(session.sent)] = <<"h", "i">>
    /\ session.history = Append(session.before.history, <<"h", "i">>)
    /\ session.file = File(Join(session.history))

Moved == eval.op \in {"Previous", "Next"}

\* the result is the input text, index and cursor
Unmoved ==
    /\ eval.out.text = eval.text
    /\ eval.out.historyIndex = eval.index
    /\ eval.out.position = eval.cursor

\* the index returned names an entry of the history
InsideHistory == eval.out.historyIndex \in 0..(Len(eval.history) - 1)

\* when the index moved, the text is the entry it names and the cursor is
\* at the end of that entry
OnEntry ==
    eval.out.historyIndex # eval.index =>
        /\ InsideHistory
        /\ eval.out.text = eval.history[eval.out.historyIndex + 1]
        /\ eval.out.position = Len(eval.out.text)

\* C21, as stated: Previous and Next return an index inside the history,
\* except for index -1 with an empty history, where they return their input
C21_Original ==
    Moved =>
        /\ IF eval.index = -1 /\ eval.history = <<>> THEN Unmoved ELSE InsideHistory
        /\ OnEntry

\* C21: Previous returns an index inside the history, except for index -1
\* with an empty history, where it returns its input; Next returns an index
\* inside the history for every index that names an entry, and for index -1
\* it returns its input, index -1 included, whatever the history; when the
\* index returned differs from the input index, the text is the entry at
\* that index and the cursor is the entry's length
C21_NavigationStaysInside ==
    Moved =>
        /\ eval.op = "Previous" =>
            IF eval.index = -1 /\ eval.history = <<>> THEN Unmoved ELSE InsideHistory
        /\ eval.op = "Next" => IF eval.index = -1 THEN Unmoved ELSE InsideHistory
        /\ OnEntry

\* Previous from index -1 went to the last of three entries
C21_Witness ==
    /\ eval.op = "Previous" /\ eval.index = -1 /\ Len(eval.history) = 3
    /\ eval.out.historyIndex = 2 /\ eval.out.text = eval.history[3]

\* readMultilineString has been applied while the context was not done
ReadAll == eval.op = "readMultilineString" /\ eval.alive = -1

\* the input opens with one of the two delimiters
Opened ==
    /\ Len(eval.input) >= 3
    /\ SubSeq(eval.input, 1, 3) \in {TripleDouble, TripleSingle}

Delimiter == SubSeq(eval.input, 1, 3)

\* the input behind the opening delimiter, cut at its newlines
Behind == Split(SubSeq(eval.input, 4, Len(eval.input)))

\* the lines behind the opening delimiter whose trimmed form ends with it
ClosingLines == {k \in 1..Len(Behind) : HasSuffix(TrimSpace(Behind[k]), Delimiter)}

FirstClosing == CHOOSE k \in ClosingLines : \A j \in ClosingLines : k <= j

\* the text up to the first closing line, with the newline of that line
\* when it has one
TextRead ==
    Join(SubSeq(Behind, 1, FirstClosing))
        \o (IF FirstClosing < Len(Behind) THEN <<NL>> ELSE <<>>)

\* the text without the last occurrence of the delimiter in it
WithoutLast(text, d) ==
    LET at == {i \in 1..(Len(text) - 2) : SubSeq(text, i, i + 2) = d}
        last == CHOOSE i \in at : \A j \in at : j <= i
    IN  SubSeq(text, 1, last - 1) \o SubSeq(text, last + 3, Len(text))

\* the text without the newlines at its end
WithoutNewlinesAtEnd(text) ==
    LET kept == {i \in 0..Len(text) : \A j \in (i + 1)..Len(text) : text[j] = NL}
    IN  SubSeq(text, 1, CHOOSE i \in kept : \A j \in kept : i <= j)

C23_RejectedInput ==
    ReadAll =>
        /\ ~Opened => (eval.out.err # Nil /\ eval.out.text = <<>>)
        /\ (Opened /\ ClosingLines = {}) =>
            /\ eval.out.text = <<>>
            /\ eval.out.err # Nil
            /\ ErrorsIs(eval.out.err, EOF)
            /\ Head(eval.out.err) = "unclosed multiline input"

\* an input opened by double quotes whose second line is three single
\* quotes ended unclosed
C23_Witness ==
    /\ ReadAll
    /\ eval.input = TripleDouble \o <<"a", NL>> \o TripleSingle
    /\ eval.out.text = <<>>
    /\ ErrorsIs(eval.out.err, EOF)

\* the installer the claims on one installer are about
Installer == install.procs[1]

\* its ContainerCreate was refused with a message that matches the pattern
Conflicted == concurrentInstallMatcher(Installer.createErr).matched

\* its ContainerCreate failed otherwise
Refused == Installer.createErr # NoError /\ ~Conflicted

\* C24, as stated: after a create refused with a matching message the call
\* waits for the container named, returns nil iff the wait succeeded and
\* else an error that wraps the failure of the wait, and calls neither
\* ContainerStart nor ContainerRemove; a create refused otherwise is
\* returned as an error without any wait
C24_Original ==
    /\ Conflicted =>
        /\ Installer.waitFor = Installer.createErr.id
        /\ Installer.calls = <<"ContainerCreate">>
        /\ Installer.pc = "done" =>
            /\ Installer.inspections >= 1
            /\ Installer.ret = "nil" <=> Installer.decided = "running"
            /\ Installer.ret # "nil" =>
                /\ Installer.ret = "error"
                /\ Installer.waitErr # Nil
                /\ Installer.err
                    = Wrap("failed waiting for concurrent installation", Installer.waitErr)
    /\ Refused =>
        /\ Installer.pc = "done" /\ Installer.ret = "error"
        /\ Installer.inspections = 0 /\ Installer.waits = 0

\* an inspection was answered with Running, Created or Restarting, with
\* another state, with not-found or with a failure
Polling == {"No such container", "created", "restarting"}

\* C30, as stated: the wait makes at most 10 inspections and 9 waits and
\* returns; Running gives nil, another state than Running, Created and
\* Restarting or a failed inspection other than not-found gives an error at
\* once, a context done during a wait gives "waiting cancelled" with no
\* further inspection, and ten inspections that say not-found, Created or
\* Restarting give "timed out"
C30_Original ==
    Conflicted =>
        /\ Installer.inspections <= Polls /\ Installer.waits <= Polls - 1
        /\ Installer.ctxDone => Installer.decided = "cancelled"
        /\ Installer.last = "running" =>
            (Installer.pc = "done" /\ Installer.ret = "nil" /\ Installer.waitErr = Nil)
        /\ Installer.last \in {"failure", "exited"} =>
            /\ Installer.pc = "done" /\ Installer.ret = "error"
            /\ Installer.waitErr \in {Errorf("unable to inspect container"),
                                      Errorf("container is in unexpected state")}
        /\ Installer.last = "ctx done" =>
            /\ Installer.pc = "done" /\ Installer.ret = "error"
            /\ Installer.waitErr = Errorf("waiting cancelled")
        /\ (Installer.pc = "done" /\ Installer.last \in Polling) =>
            /\ Installer.inspections = Polls /\ Installer.waits = Polls - 1
            /\ Installer.waitErr = Errorf("timed out")

\* the containers that hold the controller name are at most one
OneHolder == Cardinality(Holders(install.ctrs)) <= 1

\* both installers have returned
BothDone == \A p \in Procs : install.procs[p].pc = "done"

Gateways ==
    {i \in 1..Len(Installer.bridge.gateways) : Installer.bridge.gateways[i] # ""}

\* C26: the configuration submitted carries exactly the two labels and a
\* list of bindings of PORT/tcp that starts with 127.0.0.1:PORT; a second
\* binding, on the gateway of the bridge network, is there iff the override
\* is not "1" and the inspection of the network gave a gateway that is not
\* empty; there is no third
C26_SubmittedConfiguration ==
    Installer.calls # <<>> =>
        LET c == Installer.config
            second == /\ Installer.treatAsMoby # "1"
                      /\ ~Installer.bridge.failed
                      /\ Gateways # {}
        IN  /\ c.labels = {<<"com.docker.desktop.extension.api.service", "model-runner">>,
                           <<"com.docker.desktop.extension.api.role", "controller">>}
            /\ c.bound = "12434/tcp"
            /\ Len(c.bindings) >= 1
            /\ c.bindings[1] = [HostIP |-> "127.0.0.1", HostPort |-> "12434"]
            /\ Len(c.bindings) = IF second THEN 2 ELSE 1
            /\ second =>
                c.bindings[2] =
                    [HostIP |-> Installer.bridge.gateways[
                                    CHOOSE i \in Gateways : \A j \in Gateways : i <= j],
                     HostPort |-> "12434"]
            /\ \A k \in install.ctrs : k.owner = 1 => k.config = c

\* a configuration with the gateway binding was submitted and accepted, the
\* first gateway of the network being empty
C26_Witness ==
    /\ Installer.calls # <<>> /\ Installer.resp # <<>>
    /\ Installer.treatAsMoby = "0"
    /\ Installer.bridge = NetworkAnswer(FALSE, <<"", "172.17.0.1">>)
    /\ Len(Installer.config.bindings) = 2
    /\ Installer.config.bindings[2].HostIP = "172.17.0.1"

\* the positions in the trace of up of the calls of one kind, of the setenv
\* events, and of the two setenv events up can write
UpCalls(op) == {k \in DOMAIN compose.log : compose.log[k].op = op}
UpSetenvs ==
    {k \in DOMAIN compose.log :
        compose.log[k].op = "event" /\ compose.log[k].type = "setenv"}
UpErrors ==
    {k \in DOMAIN compose.log :
        compose.log[k].op = "event" /\ compose.log[k].type = "error"}
UpURL ==
    {k \in DOMAIN compose.log :
        compose.log[k] = setenv("URL", EndpointURL(compose.kind, compose.standalone))}
UpMODEL ==
    {k \in DOMAIN compose.log :
        compose.log[k] = setenv("MODEL", JoinComma(compose.models))}

\* every position of the first set is before every position of the second
Before(S, T) == \A j \in S, k \in T : j < k

\* up has returned nil
UpSucceeded == compose.pc = "done" /\ compose.ret = "nil"

\* the models of the calls of one kind, in the order of the calls
UpModels(op) ==
    LET calls == SelectSeq(compose.log, LAMBDA e : e.op = op)
    IN  [k \in DOMAIN calls |-> calls[k].model]

\* the runner was ensured, then the models listed and the missing ones
\* pulled, and every model asked for was configured, in the order asked
UpSteps ==
    /\ Cardinality(UpCalls("ensure")) = 1
    /\ Cardinality(UpCalls("List")) = 1
    /\ Before(UpCalls("ensure"), UpCalls("List"))
    /\ Before(UpCalls("List"), UpCalls("Pull"))
    /\ Before(UpCalls("Pull"), UpCalls("ConfigureBackend"))
    /\ UpModels("ConfigureBackend") = compose.models
    /\ \A k \in DOMAIN compose.log : compose.log[k].op # "event" => compose.log[k].ok

\* C27, as stated: in a successful up the runner is ensured, the missing
\* models are pulled, every model is configured, setenv URL is written and
\* then setenv MODEL; no setenv is written before the last ConfigureBackend
C27_Original ==
    UpSucceeded =>
        /\ UpSteps
        /\ Cardinality(UpURL) = 1 /\ Cardinality(UpMODEL) = 1
        /\ UpSetenvs = UpURL \union UpMODEL
        /\ Before(UpCalls("ConfigureBackend"), UpSetenvs)
        /\ Before(UpURL, UpMODEL)

\* C27: in a successful up the runner is ensured, the models are listed,
\* the missing ones are pulled, setenv MODEL is written, every model is
\* configured in the order asked, and setenv URL is written last; MODEL is
\* written after the last pull and before the first ConfigureBackend, URL
\* after the last ConfigureBackend, and there is no other setenv; in any up
\* URL is written only after every ConfigureBackend has succeeded
C27_OrderOfUp ==
    /\ UpSucceeded =>
        /\ UpSteps
        /\ Cardinality(UpURL) = 1 /\ Cardinality(UpMODEL) = 1
        /\ UpSetenvs = UpURL \union UpMODEL
        /\ Before(UpCalls("Pull"), UpMODEL)
        /\ Before(UpCalls("List"), UpMODEL)
        /\ Before(UpMODEL, UpCalls("ConfigureBackend"))
        /\ Before(UpCalls("ConfigureBackend"), UpURL)
        /\ UpURL = {Len(compose.log)}
    /\ UpURL # {} => (UpSucceeded /\ UpModels("ConfigureBackend") = compose.models)
    /\ Cardinality(UpSetenvs) <= 2

\* a successful up of two models, the first of them pulled
C27_Witness ==
    /\ UpSucceeded
    /\ compose.models = <<"c", "a">>
    /\ UpModels("Pull") = <<"c">>
    /\ compose.kind = "Moby"
    /\ compose.log[Len(compose.log)] = setenv("URL", "http://172.17.0.1:12434/engines/v1")
    /\ \E k \in UpMODEL : compose.log[k].message = "MODEL=c,a"

\* the model is in the list fetched at the start, by its id or by a tag
UpPresent(model) ==
    \E m \in compose.listed : m.ID = model \/ model \in m.Tags

\* the models up has looked at in its loop of downloads
UpLooked ==
    IF \E k \in UpCalls("List") : ~compose.log[k].ok THEN <<>>
    ELSE IF compose.pc = "download" THEN SubSeq(compose.models, 1, compose.i - 1)
    ELSE IF \E k \in UpCalls("Pull") : ~compose.log[k].ok
         THEN SubSeq(compose.models, 1, compose.i)
    ELSE IF UpCalls("List") = {} THEN <<>>
    ELSE compose.models

\* the listing or a pull has failed
UpDownloadFailed ==
    \E k \in UpCalls("List") \union UpCalls("Pull") : ~compose.log[k].ok

\* C28: of the models up looks at, in the order asked, Pull is called for
\* exactly those that the list fetched at the start does not hold by id or
\* by tag; when the listing or a pull fails, up writes an error event and
\* returns an error, having called no ConfigureBackend and written no setenv
C28_PullOnlyMissing ==
    /\ UpModels("Pull") = SelectSeq(UpLooked, LAMBDA m : ~UpPresent(m))
    /\ \A k \in UpCalls("Pull") : ~UpPresent(compose.log[k].model)
    /\ UpDownloadFailed =>
        /\ compose.pc = "done" /\ compose.ret = "error"
        /\ Len(compose.log) \in UpErrors
        /\ UpCalls("ConfigureBackend") = {}
        /\ UpSetenvs = {}

\* up was asked for a model held by tag and one not held; it pulled the
\* second only, and the pull failed
C28_Witness ==
    /\ compose.models = <<"a", "c">>
    /\ compose.listed = StoreModels
    /\ UpModels("Pull") = <<"c">>
    /\ UpDownloadFailed
    /\ compose.pc = "done"

\* the layers named by the progress lines read so far
LayersSeen ==
    {pull.lines[k].id : k \in {j \in DOMAIN pull.lines : pull.lines[j].kind = "progress"}}

\* the current of the last progress line read for a layer
MostRecent(id) ==
    LET at == {k \in DOMAIN pull.lines :
                  pull.lines[k].kind = "progress" /\ pull.lines[k].id = id}
    IN  pull.lines[CHOOSE k \in at : \A j \in at : j <= k].current

\* the sum of the most recent values of the layers seen
RECURSIVE SumOfMostRecent(_)
SumOfMostRecent(ids) ==
    IF ids = {} THEN 0
    ELSE LET id == CHOOSE x \in ids : TRUE
         IN  MostRecent(id) + SumOfMostRecent(ids \ {id})

\* what fmtProgressBar was last called with
Handed ==
    IF pull.suppressed # <<>> THEN pull.suppressed[Len(pull.suppressed)]
    ELSE pull.renders[Len(pull.renders)]

\* C29: after a progress line, the current handed to fmtProgressBar is the
\* sum, over the layers seen so far in this pull, of the value of the last
\* progress line of each layer
C29_AggregateOfLayers ==
    (pull.lines # <<>> /\ pull.lines[Len(pull.lines)].kind = "progress") =>
        /\ Handed.current = SumOfMostRecent(LayersSeen)
        /\ Handed.total = pull.lines[Len(pull.lines)].total
        /\ pull.current = SumOfMostRecent(LayersSeen)
        /\ DOMAIN pull.layerProgress = LayersSeen

\* layer A reported 500, layer B 500, then layer A 1000: 1500 is handed on
C29_Witness ==
    /\ Len(pull.lines) = 3
    /\ pull.lines[1] = Line("progress", "layerA", 500, 1000, "")
    /\ pull.lines[2] = Line("progress", "layerB", 500, 1000, "")
    /\ pull.lines[3] = Line("progress", "layerA", 1000, 1000, "")
    /\ Handed.current = 1500

\* the calls of the installer that are removals
Removals ==
    {k \in DOMAIN Installer.calls : Installer.calls[k] = "ContainerRemove"}

\* C31: when ContainerStart fails after an accepted create, the call asks
\* once for the removal of the container it created and returns an error,
\* whether the engine removed the container or not; it asks for no removal
\* otherwise, and it returns nil only when it started its own container or
\* its wait for a concurrent installation saw the container running
C31_RemovalAfterFailedStart ==
    /\ (Installer.startFailed /\ Installer.pc = "done") =>
        /\ Installer.calls = <<"ContainerCreate", "ContainerStart", "ContainerRemove">>
        /\ Installer.target = Installer.resp /\ Installer.resp # <<>>
        /\ Installer.ret = "error"
        /\ Installer.err = Errorf("failed to start container")
    /\ Cardinality(Removals) <= 1
    /\ Removals # {} =>
        /\ Installer.startFailed
        /\ Installer.target = Installer.resp
        /\ 1 \in {install.accepted[k] : k \in DOMAIN install.accepted}
        /\ Installer.createErr = NoError
    /\ \A c \in install.ctrs : c.owner = 0 => c.id # Installer.target
    /\ Installer.ret = "nil" =>
        \/ /\ Installer.calls = <<"ContainerCreate", "ContainerStart">>
           /\ ~Installer.startFailed /\ Installer.createErr = NoError
        \/ /\ Installer.calls = <<"ContainerCreate">>
           /\ Conflicted /\ Installer.decided = "running"

\* the start failed, the removal was asked for and failed too: the
\* container is still there and the call has returned its error
C31_Witness ==
    /\ Installer.pc = "done" /\ Installer.startFailed
    /\ Removals # {}
    /\ \E c \in install.ctrs : c.id = Installer.resp /\ c.owner = 1
    /\ Installer.ret = "error"

\* FindControllerContainer, and whether its prune has failed
Finder == install.finder
PruneFailed ==
    /\ Finder.pc = "done" /\ Finder.ret.err # Nil
    /\ Finder.ret.err[1] = "unable to prune stopped model runner containers"

\* C32, as stated: the prune comes before the listing and removes stopped
\* controllers only, never one that is running or that is created or
\* restarting; a failed prune is returned without listing; otherwise the
\* first controller listed is returned, or zero values when none is
C32_Original ==
    /\ \A r \in Finder.removed : r.state \notin {"running", "created", "restarting"}
    /\ Finder.calls # <<>> => Finder.calls[1] = "ContainerList all"
    /\ \A k \in DOMAIN Finder.calls :
          Finder.calls[k] = "ContainerList" => k = Len(Finder.calls)
    /\ PruneFailed => Finder.calls[Len(Finder.calls)] # "ContainerList"
    /\ (Finder.pc = "done" /\ Finder.ret.err = Nil) =>
        /\ Finder.calls[Len(Finder.calls)] = "ContainerList"
        /\ IF Finder.listed = <<>>
           THEN Finder.ret = [id |-> <<>>, name |-> "", summary |-> NoSummary, err |-> Nil]
           ELSE /\ Finder.ret.id = Finder.listed[1].ID
                /\ Finder.ret.summary = Finder.listed[1]

\* the goroutines that are between the lock and the unlock of a call
InCall(g) == tracker.gs[g].pc \in {"body", "write", "unlock"}

\* C33: a goroutine reads or writes the map and the counter only while it
\* holds the mutex (UpdateLayer and Stop as the writer and alone, HasLayers
\* as a reader); once a Stop has returned no UpdateLayer changes the map or
\* the counter or prints, so what Stop wrote stays the last output
C33_SerializedTracker ==
    /\ \A g \in Goroutines :
          InCall(g) =>
              IF tracker.gs[g].op = "HasLayers"
              THEN g \in tracker.readers /\ tracker.writer = 0
              ELSE tracker.writer = g /\ tracker.readers = {}
    /\ tracker.stopReturned =>
        /\ ~tracker.isActive
        /\ ~tracker.late
        /\ tracker.lastOut = "Stop"
        /\ tracker.lastLines = 0

\* a Stop has returned with layers shown, and an UpdateLayer that was
\* called after it has gone through its body and returned
C33_Witness ==
    /\ tracker.stopReturned
    /\ DOMAIN tracker.layers # {}
    /\ tracker.op = "Stop"
    /\ tracker.printed[Len(tracker.printed)].t = "final"
    /\ tracker.started >= 3
    /\ \E g \in Goroutines :
          tracker.gs[g].op = "UpdateLayer" /\ tracker.gs[g].pc = "unlock"

\* the goroutine of readLine has its read behind it and is at its send
Sending == eval.op = "readLine" /\ eval.goroutine \in {"send errs", "send lines"}

\* the goroutine has closed its channels and ended
Ended == eval.op = "readLine" /\ eval.goroutine = "ended" /\ eval.closed

\* what readLine returned is the error of the context, or what its
\* goroutine read, received before the channels were closed
ReturnedWhatWasRead ==
    (eval.op = "readLine" /\ eval.main = "returned") =>
        \/ /\ eval.from = "ctx" /\ eval.ctxDone
           /\ eval.ret = [line |-> <<>>, err |-> Canceled]
        \/ /\ eval.from = "send lines"
           /\ eval.read.line = readLine(eval.r, FALSE).line
           /\ eval.ret = [line |-> eval.read.line, err |-> Nil]
           /\ eval.read.line # <<>>
        \/ /\ eval.from = "send errs"
           /\ eval.read.line = <<>> /\ eval.read.err # Nil
           /\ eval.ret = [line |-> <<>>, err |-> eval.read.err]

\* C34, as stated: once its read has returned the goroutine of readLine
\* ends and closes its channels, also when readLine has returned the error
\* of the context; and readLine returns the error of the context or what
\* the goroutine read, never the zero value of a closed channel
C34_Original == [](ReturnedWhatWasRead) /\ (Sending ~> Ended)

\* C35: readMultilineString gives the same text, and an error in the same
\* cases, whether all the input is behind the reader and the initial text
\* is empty, or the first line of the input is the initial text and the
\* reader holds what follows it
C35_SameByEitherDelivery ==
    eval.op = "delivery" =>
        /\ eval.whole.text = eval.chunked.text
        /\ (eval.whole.err = Nil) <=> (eval.chunked.err = Nil)
        /\ eval.whole.err = eval.chunked.err

\* an input of two lines that closes on the second, read both ways
C35_Witness ==
    /\ eval.op = "delivery"
    /\ eval.input = TripleDouble \o <<"a", NL>> \o TripleDouble
    /\ eval.firstLine = TripleDouble \o <<"a", NL>>
    /\ eval.chunked = [text |-> <<"a">>, err |-> Nil]
    /\ eval.whole = [text |-> <<"a">>, err |-> Nil]

\* the DELETE requests of the last call, in the order sent
Deletes == SelectSeq(call.reqs, LAMBDA r : r.route = "DELETE /models/{ref}")

\* C36: Remove sends the DELETE of its references in their order and stops
\* at the first that is not answered 200, a 404 included: it returns an
\* error with the report of the references before it and sends no DELETE
\* for a reference after it; when every DELETE is answered 200 it returns
\* the whole report and no error
C36_RemoveStopsAtFirstFailure ==
    call.op = "Remove" =>
        /\ Len(Deletes) >= 1 /\ Len(Deletes) <= Len(call.args)
        /\ \A k \in 1..(Len(Deletes) - 1) : Deletes[k].code = StatusOK
        /\ \A k \in 1..Len(Deletes) :
              ContainsSlash(call.args[k]) =>
                  Deletes[k].ref = normalizeHuggingFaceModelName(call.args[k])
        /\ call.reqs[Len(call.reqs)] = Deletes[Len(Deletes)]
        /\ IF Deletes[Len(Deletes)].code = StatusOK
           THEN /\ call.err = Nil
                /\ Len(Deletes) = Len(call.args)
                /\ Len(call.report) = Len(call.args)
           ELSE /\ call.err # Nil
                /\ Len(call.report) = Len(Deletes) - 1
                /\ \A k \in 1..Len(call.report) : call.report[k][2] = Deletes[k].ref

\* Remove of two references: the first was removed, the second was
\* answered 404, and the report of the first came back with the error
C36_Witness ==
    /\ call.op = "Remove" /\ Len(call.args) = 2
    /\ Len(Deletes) = 2
    /\ Deletes[1].code = StatusOK /\ Deletes[2].code = StatusNotFound
    /\ call.err = Errorf("no such model")
    /\ Len(call.report) = 1

\* the p-th request of the last call is a lookup that gave no id: the
\* listing failed, did not decode, or names no model for x
LookupFailed(x, p) ==
    /\ p \in 1..Len(call.reqs)
    /\ call.reqs[p].route = "GET /models"
    /\ ~ListedFor(x, p)

\* C37: when the lookup of a reference gives no id, Inspect and
\* InspectOpenAI fail with "invalid model name", an error that is not
\* ErrNotFound, and send nothing after the listing; Chat, Tag and Remove go
\* on and send their request with the reference as normalized
C37_LookupFailure ==
    /\ (call.op \in {"Inspect", "InspectOpenAI"} /\ LookupFailed(call.args[1], 1)) =>
        /\ call.err = Errorf("invalid model name")
        /\ ~ErrorsIs(call.err, ErrNotFound)
        /\ Len(call.reqs) = 1
        /\ SentRefs = <<>>
    /\ (call.op \in {"Chat", "Tag"} /\ LookupFailed(call.args[1], 1)) =>
        /\ Len(call.reqs) = 2
        /\ Len(SentRefs) = 1
        /\ SentRefs[1].ref = normalizeHuggingFaceModelName(call.args[1])
    /\ call.op = "Remove" =>
        \A i \in 1..Len(SentRefs) :
            LookupFailed(call.args[i], SentPos(i) - 1) =>
                SentRefs[i].ref = normalizeHuggingFaceModelName(call.args[i])

\* Inspect of a short id that the listing, answered 200, does not hold
C37_Witness ==
    /\ call.op = "Inspect"
    /\ call.args = <<ShortID(ID1)>>
    /\ call.reqs[1].code = StatusOK /\ call.reqs[1].json
    /\ call.reqs[1].models = <<ID3>>
    /\ call.err = Errorf("invalid model name")
    /\ Len(call.reqs) = 1

\* C38: when the body of a chat response ends without a "data: [DONE]" line
\* and without a read error, Chat returns nil and has written every fragment
\* of every chunk it received; a pull stream that ends without its "success"
\* line returns an error.
C38_TruncatedChatIsSuccess ==
    /\ chat.pc = "done" /\ chat.ended = "end of body" =>
          /\ \A i \in 1..Len(chat.lines) : chat.lines[i].kind # "done"
          /\ chat.err = Nil
          /\ Written("content") = ContentSent(chat.lines)
          /\ Written("reasoning") = ReasoningSent(chat.lines)
    /\ PullEndOfStream(PullIdle).err # Nil

\* C38's case: the body ended after two chunks and no "data: [DONE]"
C38_Witness ==
    /\ chat.pc = "done"
    /\ chat.ended = "end of body"
    /\ Len(chat.lines) = 2
    /\ \A i \in 1..2 : chat.lines[i].kind = "chunk"
    /\ Written("content") # <<>>
    /\ chat.err = Nil

\* the bars that Pull computed to the end: fmtProgressBar returns before the
\* percentage and the ETA for a throttled message
Computed == {pull.renders[i] : i \in 1..Len(pull.renders)}

\* C39: whenever Pull computes a progress bar the sum of the latest
\* per-layer currents is at most the total of the message being processed,
\* so total - current in calcETA does not wrap around and the percentage
\* shown is at most 100.
C39_Original ==
    \A bar \in Computed :
        /\ bar.current <= bar.total
        /\ SubUint(bar.total, bar.current) = bar.total - bar.current
        /\ bar.percent <= 100

\* the chat turn of the question last submitted failed
TurnFailed == session.did = "chat" /\ session.chatErr # Nil

\* C40: when a chat turn of the interactive loop fails, the loop prints the
\* error, leaves the history and its file as they were, and returns nil
\* instead of prompting again; once it has returned, no further prompt is
\* read and nothing else changes.
C40_FailedTurnEndsSession ==
    /\ [](TurnFailed =>
            /\ session.pc = "done"
            /\ session.err = Nil
            /\ session.stderr = <<session.chatErr>>
            /\ session.history = session.before.history
            /\ session.file = session.before.file)
    /\ [][TurnFailed => session' = session]_vars

\* C40's case: a second question, after one good turn that went into the
\* history, met a failing Chat and the loop returned
C40_Witness ==
    /\ TurnFailed
    /\ session.pc = "done"
    /\ Len(session.sent) = 2
    /\ Len(session.history) > 0
    /\ session.question \notin {session.history[i] : i \in 1..Len(session.history)}

====
